---- MODULE Spec2Model ----
(***************************************************************************)
(* Model of the model-capability cache (DynamicModelsManager) of the       *)
(* GitHub Copilot nodes: a process-wide Map from a 32-bit hash of the      *)
(* bearer token to the model listing fetched with it, with a TTL, a        *)
(* minimum refresh interval, explicit invalidation and read-only           *)
(* capability lookups.  getAvailableModels is asynchronous: it reads the   *)
(* cache, awaits the outbound fetch, and then writes the cache, so a call  *)
(* is two steps and calls may overlap.                                     *)
(***************************************************************************)
EXTENDS Integers, Sequences, FiniteSets, Bags, TLC

(***************************************************************************)
(* Bounds of the model.  Spec, where calls overlap, is explored to a       *)
(* smaller depth than SeqSpec, where they do not.                          *)
(***************************************************************************)
\* SeqSpec: how many getAvailableModels calls are made, how often the clock advances
MaxCalls == 3
MaxTicks == 2
\* Spec: the same
OverlapCalls == 2
OverlapTicks == 1
\* StormSpec: how many getAvailableModels calls are made
StormCalls == 3
MaxItems == 2
NodeCalls == 1

(***************************************************************************)
(* Program constants (milliseconds).                                       *)
(***************************************************************************)
CACHE_DURATION_MS == 60 * 60 * 1000
MIN_REFRESH_INTERVAL_MS == 5 * 60 * 1000

(***************************************************************************)
(* 32-bit integer arithmetic of hashToken, on two 16-bit limbs             *)
(* [hi, lo] = hi * 2^16 + lo, read as a two's complement int32.            *)
(***************************************************************************)
Limb == 65536

Zero32 == [hi |-> 0, lo |-> 0]

\* (hash << 5): the int32 left shift, bits shifted out are lost
Shl5(h) ==
    LET l == h.lo * 32
    IN  [hi |-> (h.hi * 32 + (l \div Limb)) % Limb, lo |-> l % Limb]

\* a - b, wrapped to 32 bits
Sub32(a, b) ==
    LET l == a.lo - b.lo
        borrow == IF l < 0 THEN 1 ELSE 0
    IN  [hi |-> (a.hi - b.hi - borrow) % Limb, lo |-> l % Limb]

\* a + c for a UTF-16 code unit c, wrapped to 32 bits
AddChar32(a, c) ==
    LET l == a.lo + c
    IN  [hi |-> (a.hi + (l \div Limb)) % Limb, lo |-> l % Limb]

IsNegative32(h) == h.hi >= Limb \div 2

\* Math.abs of an int32; Math.abs(-2^31) is 2^31, which the limbs hold unsigned
Abs32(h) == IF IsNegative32(h) THEN Sub32(Zero32, h) ELSE h

Digits36 ==
    << "0", "1", "2", "3", "4", "5", "6", "7", "8", "9", "a", "b", "c", "d", "e",
       "f", "g", "h", "i", "j", "k", "l", "m", "n", "o", "p", "q", "r", "s", "t",
       "u", "v", "w", "x", "y", "z" >>

\* Number.prototype.toString(36) of a non-negative integer below 2^32
RECURSIVE ToString36(_)
ToString36(u) ==
    IF u.hi = 0 /\ u.lo < 36
    THEN << Digits36[u.lo + 1] >>
    ELSE LET t == (u.hi % 36) * Limb + u.lo
         IN  ToString36([hi |-> u.hi \div 36, lo |-> t \div 36])
                 \o << Digits36[(t % 36) + 1] >>

(***************************************************************************)
(* Credentials as the JavaScript values passed as oauthToken: a string     *)
(* (its UTF-16 code units), undefined, or a non-string object.             *)
(***************************************************************************)
Str(chars) == [type |-> "string", chars |-> chars]
Undefined == [type |-> "undefined", chars |-> << >>]
NonString == [type |-> "object", chars |-> << 71, 72 >>]

TokenAa == Str(<< 65, 97 >>)
TokenBB == Str(<< 66, 66 >>)
TokenC == Str(<< 67 >>)
TokenEmpty == Str(<< >>)

\* the credentials that calls and invalidations are made with
Tokens == { TokenAa, TokenBB, Undefined }

\* the credentials that lookups are made with
AnyToken == Tokens \cup { TokenC, TokenEmpty, NonString }

\* !token
Falsy(token) ==
    \/ token.type = "undefined"
    \/ token.type = "string" /\ Len(token.chars) = 0

\* the guard of hashToken: the credential is not a usable string
Degenerate(token) ==
    \/ Falsy(token)
    \/ token.type # "string"
    \/ Len(token.chars) = 0

DefaultKey == << "models_", "d", "e", "f", "a", "u", "l", "t" >>

RECURSIVE HashLoop(_, _, _)
HashLoop(chars, i, hash) ==
    IF i > Len(chars)
    THEN hash
    ELSE HashLoop(chars, i + 1, AddChar32(Sub32(Shl5(hash), hash), chars[i]))

\* the cache key of a credential, as the characters after the "models_" prefix
hashToken ==
    [token \in AnyToken |->
        IF Degenerate(token)
        THEN DefaultKey
        ELSE << "models_" >> \o ToString36(Abs32(HashLoop(token.chars, 1, Zero32)))]

(***************************************************************************)
(* Model descriptors.  Of a CopilotModel the lookups read the id and three *)
(* tests on its capabilities: supports.vision === true, limits.vision      *)
(* truthy, and supports.tool_calls === true.                               *)
(***************************************************************************)
Descriptor(id, supportsVision, limitsVision, toolCalls) ==
    [id |-> id, supportsVision |-> supportsVision,
     limitsVision |-> limitsVision, toolCalls |-> toolCalls]

\* listings the provider may answer with, in the provider's order; the
\* second one repeats an id and advertises vision through limits only
Listing1 ==
    << Descriptor("m1", TRUE, FALSE, TRUE), Descriptor("m2", FALSE, FALSE, FALSE) >>
Listing2 ==
    << Descriptor("m2", FALSE, TRUE, TRUE), Descriptor("m1", FALSE, FALSE, FALSE),
       Descriptor("m1", TRUE, FALSE, TRUE) >>

Listings == { Listing1, Listing2 }

\* "m3" is in no listing
ModelIds == { "m1", "m2", "m3" }

\* Array.prototype.find(m => m.id === modelId): index of the first match, 0 if none
RECURSIVE FindFrom(_, _, _)
FindFrom(models, modelId, i) ==
    IF i > Len(models) THEN 0
    ELSE IF models[i].id = modelId THEN i
    ELSE FindFrom(models, modelId, i + 1)

Find(models, modelId) == FindFrom(models, modelId, 1)

NoModel == Descriptor("", FALSE, FALSE, FALSE)

(***************************************************************************)
(* State.                                                                  *)
(***************************************************************************)
VARIABLES
    cache,     \* the static Map: key -> ModelCache entry; its domain are the keys present
    now,       \* Date.now()
    ticks,     \* how often the clock has advanced
    started,   \* how many getAvailableModels calls were made
    calls,     \* the getAvailableModels calls awaiting their fetch (a bag)
    ev,        \* history: what the last step did and observed
    ref,       \* history: per credential, its last successful fetch since the last clear
    prevCall,  \* history: the getAvailableModels call that returned last
    pc,        \* execute: where it stands (loop, creds, api, done, returned, thrown)
    itemIndex, \* execute: i, the index of the item
    cur,       \* execute: the item in work and what was decided for it
    inFlight,  \* the chat requests sent and not yet answered
    returnData,      \* execute: the items pushed so far
    continueOnFail   \* this.continueOnFail()

hist == << ref, prevCall >>
cacheVars == << cache, now, ticks, started, calls, ev, ref, prevCall >>
nodeVars == << pc, itemIndex, cur, inFlight, returnData, continueOnFail >>
vars == << cache, now, ticks, started, calls, ev, ref, prevCall,
           pc, itemIndex, cur, inFlight, returnData, continueOnFail >>

\* fetchedWith is history: the credential the listing was fetched with
NoEntry ==
    [models |-> << >>, fetchedAt |-> 0, expiresAt |-> 0, tokenHash |-> << >>,
     fetchedWith |-> Undefined]

EmptyCache == [k \in {} |-> NoEntry]

\* Map.has, Map.get
Has(c, key) == key \in DOMAIN c
Get(c, key) == IF Has(c, key) THEN c[key] ELSE NoEntry

\* Map.set
MapSet(c, key, entry) ==
    [k \in DOMAIN c \cup { key } |-> IF k = key THEN entry ELSE c[k]]

\* Map.delete
MapDelete(c, key) == [k \in DOMAIN c \ { key } |-> c[k]]

EvBase ==
    [kind |-> "init", fn |-> "", token |-> Undefined, at |-> 0,
     hadEntry |-> FALSE, expired |-> FALSE, fetched |-> FALSE, fetchOk |-> FALSE,
     threw |-> FALSE, models |-> << >>, origin |-> Undefined]

\* every step records its kind, and what it observed
Observed(kind) == [EvBase EXCEPT !.kind = kind]

(***************************************************************************)
(* The clock.  It advances by half the refresh interval or by the TTL, so  *)
(* that a call can fall inside the cooldown, on its edge, inside the TTL   *)
(* window, on its edge, and beyond it.                                     *)
(***************************************************************************)
TickDurations == { MIN_REFRESH_INTERVAL_MS \div 2, CACHE_DURATION_MS }

Tick(d) ==
    /\ now' = now + d
    /\ ticks' = ticks + 1
    /\ ev' = Observed("tick")
    /\ UNCHANGED << cache, started, calls >>

(***************************************************************************)
(* getAvailableModels: the part up to the await.                           *)
(***************************************************************************)
\* a variant that takes the refresh interval for the lifetime of an entry
NewEntryShortLived(models, at, tokenHash, token) ==
    [models |-> models, fetchedAt |-> at, expiresAt |-> at + MIN_REFRESH_INTERVAL_MS,
     tokenHash |-> tokenHash, fetchedWith |-> token]

\* the entry a successful fetch stores
NewEntry(models, at, tokenHash, token) ==
    [models |-> models, fetchedAt |-> at, expiresAt |-> at + CACHE_DURATION_MS,
     tokenHash |-> tokenHash, fetchedWith |-> token]

\* cached && cached.expiresAt > now
IsFresh(hasCached, cached, at) == hasCached /\ cached.expiresAt > at

\* cached && now - cached.fetchedAt < MIN_REFRESH_INTERVAL_MS
InCooldown(hasCached, cached, at) ==
    hasCached /\ at - cached.fetchedAt < MIN_REFRESH_INTERVAL_MS

\* the observation of a call that returns or throws
Returned(token, at, hadEntry, expired, fetched, fetchOk, threw, models, origin) ==
    [Observed("returned") EXCEPT
        !.token = token, !.at = at, !.hadEntry = hadEntry, !.expired = expired,
        !.fetched = fetched, !.fetchOk = fetchOk, !.threw = threw,
        !.models = models, !.origin = origin]

\* a call awaiting its fetch: its arguments and locals
Awaiting(oauthToken, tokenHash, at, hasCached, cached) ==
    [token |-> oauthToken, tokenHash |-> tokenHash, now |-> at,
     hasCached |-> hasCached, cached |-> cached]

Expired(c) == c.hasCached /\ ~(c.cached.expiresAt > c.now)

getAvailableModels(oauthToken) ==
    LET tokenHash == hashToken[oauthToken]
        hasCached == Has(cache, tokenHash)
        cached == Get(cache, tokenHash)
        c == Awaiting(oauthToken, tokenHash, now, hasCached, cached)
    IN  /\ started' = started + 1
        /\ IF IsFresh(hasCached, cached, now) \/ InCooldown(hasCached, cached, now)
           THEN \* served from the cache, no await: the call returns in this step
                /\ ev' = Returned(oauthToken, now, hasCached, Expired(c), FALSE, FALSE,
                                  FALSE, cached.models, cached.fetchedWith)
                /\ UNCHANGED << cache, now, ticks, calls >>
           ELSE \* fetchModelsFromAPI issues the request; the call awaits the answer
                /\ calls' = calls (+) SetToBag({ c })
                /\ ev' = [Observed("fetchStarted") EXCEPT
                            !.token = oauthToken, !.at = now, !.hadEntry = hasCached,
                            !.expired = Expired(c), !.fetched = TRUE]
                /\ UNCHANGED << cache, now, ticks >>

(***************************************************************************)
(* getAvailableModels: after the await.                                    *)
(***************************************************************************)
\* a variant that stores every listing under the sentinel key
FetchResolvesSharedKey(c, models) ==
    /\ BagIn(c, calls)
    /\ cache' = MapSet(cache, DefaultKey, NewEntry(models, c.now, DefaultKey, c.token))
    /\ calls' = calls (-) SetToBag({ c })
    /\ ev' = Returned(c.token, c.now, c.hasCached, Expired(c), TRUE, TRUE, FALSE,
                      models, c.token)
    /\ UNCHANGED << now, ticks, started >>

\* the try block: the fetch resolved with a listing
FetchResolves(c, models) ==
    /\ BagIn(c, calls)
    /\ cache' = MapSet(cache, c.tokenHash, NewEntry(models, c.now, c.tokenHash, c.token))
    /\ calls' = calls (-) SetToBag({ c })
    /\ ev' = Returned(c.token, c.now, c.hasCached, Expired(c), TRUE, TRUE, FALSE,
                      models, c.token)
    /\ UNCHANGED << now, ticks, started >>

\* a variant that evicts the entry of the credential when the request fails
FetchRejectsEvicts(c) ==
    /\ BagIn(c, calls)
    /\ cache' = MapDelete(cache, c.tokenHash)
    /\ calls' = calls (-) SetToBag({ c })
    /\ ev' = Returned(c.token, c.now, c.hasCached, Expired(c), TRUE, FALSE,
                      ~c.hasCached,
                      IF c.hasCached THEN c.cached.models ELSE << >>,
                      IF c.hasCached THEN c.cached.fetchedWith ELSE Undefined)
    /\ UNCHANGED << now, ticks, started >>

\* a variant that issues the request again when it failed
FetchRejectsRetries(c) ==
    /\ BagIn(c, calls)
    /\ ev' = [Observed("fetchStarted") EXCEPT
                !.token = c.token, !.at = c.now, !.hadEntry = c.hasCached,
                !.expired = Expired(c), !.fetched = TRUE, !.fn = "retry"]
    /\ UNCHANGED << cache, now, ticks, started, calls >>

\* the catch block: the request failed, or the answer was not a listing
FetchRejects(c) ==
    /\ BagIn(c, calls)
    /\ calls' = calls (-) SetToBag({ c })
    /\ ev' = Returned(c.token, c.now, c.hasCached, Expired(c), TRUE, FALSE,
                      ~c.hasCached,
                      IF c.hasCached THEN c.cached.models ELSE << >>,
                      IF c.hasCached THEN c.cached.fetchedWith ELSE Undefined)
    /\ UNCHANGED << cache, now, ticks, started >>

(***************************************************************************)
(* Invalidation.                                                           *)
(***************************************************************************)
\* a variant that evicts the entry only once it has expired
clearCacheExpiredOnly(oauthToken) ==
    /\ cache' = IF Get(cache, hashToken[oauthToken]).expiresAt > now
                THEN cache
                ELSE MapDelete(cache, hashToken[oauthToken])
    /\ ev' = [Observed("clearCache") EXCEPT !.token = oauthToken]
    /\ UNCHANGED << now, ticks, started, calls >>

\* a variant that drops every entry
clearCacheDropsAll(oauthToken) ==
    /\ cache' = EmptyCache
    /\ ev' = [Observed("clearCache") EXCEPT !.token = oauthToken]
    /\ UNCHANGED << now, ticks, started, calls >>

clearCache(oauthToken) ==
    /\ cache' = MapDelete(cache, hashToken[oauthToken])
    /\ ev' = [Observed("clearCache") EXCEPT !.token = oauthToken]
    /\ UNCHANGED << now, ticks, started, calls >>

clearAllCache ==
    /\ cache' = EmptyCache
    /\ ev' = Observed("clearAllCache")
    /\ UNCHANGED << now, ticks, started, calls >>

(***************************************************************************)
(* The capability lookups.                                                 *)
(***************************************************************************)
\* a variant that takes an expired entry for a missing one
getModelFromCacheFreshOnly(c, oauthToken, modelId) ==
    LET tokenHash == hashToken[oauthToken]
        cached == Get(c, tokenHash)
        i == Find(cached.models, modelId)
    IN  IF ~Has(c, tokenHash) \/ ~(cached.expiresAt > now)
        THEN [found |-> FALSE, model |-> NoModel]
        ELSE IF i = 0 THEN [found |-> FALSE, model |-> NoModel]
        ELSE [found |-> TRUE, model |-> cached.models[i]]

getModelFromCache(c, oauthToken, modelId) ==
    LET tokenHash == hashToken[oauthToken]
        cached == Get(c, tokenHash)
        i == Find(cached.models, modelId)
    IN  IF ~Has(c, tokenHash) THEN [found |-> FALSE, model |-> NoModel]
        ELSE IF i = 0 THEN [found |-> FALSE, model |-> NoModel]
        ELSE [found |-> TRUE, model |-> cached.models[i]]

\* a variant that reads capabilities.supports.vision only
modelSupportsVisionSupportsOnly(c, oauthToken, modelId) ==
    LET m == getModelFromCache(c, oauthToken, modelId)
    IN  IF ~m.found THEN "null"
        ELSE IF m.model.supportsVision THEN "true"
        ELSE "false"

modelSupportsVision(c, oauthToken, modelId) ==
    LET m == getModelFromCache(c, oauthToken, modelId)
    IN  IF ~m.found THEN "null"
        ELSE IF m.model.supportsVision THEN "true"
        ELSE IF m.model.limitsVision THEN "true"
        ELSE "false"

modelSupportsTools(c, oauthToken, modelId) ==
    LET m == getModelFromCache(c, oauthToken, modelId)
    IN  IF ~m.found THEN "null"
        ELSE IF m.model.toolCalls THEN "true" ELSE "false"

getModelCapabilities(c, oauthToken, modelId) ==
    LET m == getModelFromCache(c, oauthToken, modelId)
    IN  IF ~m.found THEN [found |-> FALSE, vision |-> FALSE, tools |-> FALSE]
        ELSE [found |-> TRUE,
              vision |-> m.model.supportsVision \/ m.model.limitsVision,
              tools |-> m.model.toolCalls]

\* A lookup is a step that returns the value of its operator on the cache of
\* the state; of the step the history keeps only which lookup it was.
Looked(fn) ==
    /\ ev' = [Observed("lookup") EXCEPT !.fn = fn]
    /\ UNCHANGED << cache, now, ticks, started, calls >>

LookupModel == Looked("getModelFromCache")

LookupVision == Looked("modelSupportsVision")

LookupTools == Looked("modelSupportsTools")

LookupCapabilities == Looked("getModelCapabilities")

(***************************************************************************)
(* History of the sequential specification.                                *)
(***************************************************************************)
NoRef == [has |-> FALSE, t |-> 0, models |-> << >>]

NoPrev == [live |-> FALSE, token |-> Undefined, at |-> 0, fetched |-> FALSE]

\* ref: set by a successful fetch, forgotten at every invalidation
\* prevCall: the call that returned last, kept when it had found an expired entry
Remember ==
    /\ ref' = IF ev'.kind \in { "clearCache", "clearAllCache" }
              THEN [t \in Tokens |-> NoRef]
              ELSE IF ev'.kind = "returned" /\ ev'.fetchOk
              THEN [ref EXCEPT ![ev'.token] =
                        [has |-> TRUE, t |-> ev'.at, models |-> ev'.models]]
              ELSE ref
    /\ prevCall' = IF ev'.kind = "returned"
                   THEN IF ev'.expired
                        THEN [live |-> TRUE, token |-> ev'.token, at |-> ev'.at,
                              fetched |-> ev'.fetched]
                        ELSE NoPrev
                   ELSE prevCall

(***************************************************************************)
(* The node (GitHubCopilotOpenAI.execute).  Texts are sequences of         *)
(* characters, so that the searches of the vision detection are computed   *)
(* on them as the code computes them.                                      *)
(***************************************************************************)
UpperCase ==
    << "A", "B", "C", "D", "E", "F", "G", "H", "I", "J", "K", "L", "M",
       "N", "O", "P", "Q", "R", "S", "T", "U", "V", "W", "X", "Y", "Z" >>

LowerCase ==
    << "a", "b", "c", "d", "e", "f", "g", "h", "i", "j", "k", "l", "m",
       "n", "o", "p", "q", "r", "s", "t", "u", "v", "w", "x", "y", "z" >>

RECURSIVE IndexFrom(_, _, _)
IndexFrom(s, ch, k) ==
    IF k > Len(s) THEN 0
    ELSE IF s[k] = ch THEN k
    ELSE IndexFrom(s, ch, k + 1)

\* the character lower-cased, as the i flag of a regular expression compares
toLowerCase(ch) ==
    LET k == IndexFrom(UpperCase, ch, 1)
    IN  IF k = 0 THEN ch ELSE LowerCase[k]

\* pat occurs in s at position k
MatchAt(s, pat, k) ==
    /\ k >= 1
    /\ k + Len(pat) - 1 <= Len(s)
    /\ \A j \in 1 .. Len(pat) : s[k + j - 1] = pat[j]

\* the same, ignoring case (pat in lower case)
MatchAtIgnoreCase(s, pat, k) ==
    /\ k >= 1
    /\ k + Len(pat) - 1 <= Len(s)
    /\ \A j \in 1 .. Len(pat) : toLowerCase(s[k + j - 1]) = pat[j]

\* String.prototype.includes, String.prototype.startsWith
includes(s, pat) == \E k \in 1 .. Len(s) : MatchAt(s, pat, k)
startsWith(s, pat) == MatchAt(s, pat, 1)

DataImage ==
    << "d", "a", "t", "a", ":", "i", "m", "a", "g", "e", "/" >>

CopilotFile ==
    << "c", "o", "p", "i", "l", "o", "t", "-", "f", "i", "l", "e", ":",
       "/", "/" >>

ImageWord ==
    << "i", "m", "a", "g", "e" >>

\* the characters the dot of a regular expression does not match
LineTerminators == { "\n", "\r" }

\* content.match(/\[.*image.*\]/i): an opening bracket, later on the same line
\* the word image in any case, later on the same line a closing bracket
matchBracketImage(s) ==
    \E a \in 1 .. Len(s) :
        /\ s[a] = "["
        /\ \E b \in a + 1 .. Len(s) :
              /\ MatchAtIgnoreCase(s, ImageWord, b)
              /\ \E c \in b + Len(ImageWord) .. Len(s) :
                    /\ s[c] = "]"
                    /\ \A k \in a + 1 .. c - 1 : s[k] \notin LineTerminators

(***************************************************************************)
(* Contents the caller supplies.                                           *)
(***************************************************************************)
Base64Header ==
    << "p", "n", "g", ";", "b", "a", "s", "e", "6", "4", "," >>

DataUrl(n) == DataImage \o Base64Header \o [k \in 1 .. n |-> "A"]

LongDataUrl == DataUrl(60)

ShortDataUrl == DataUrl(10)

TextMentionsImage ==
    << "t", "h", "i", "s", " ", "j", "s", "o", "n", " ", "h", "a", "s",
       " ", "t", "h", "e", " ", "w", "o", "r", "d", " ", "i", "m", "a",
       "g", "e", " ", "i", "n", " ", "i", "t" >>

JsonWithImage ==
    << "{", "\"", "t", "a", "g", "s", "\"", ":", "[", "\"", "I", "m", "a",
       "g", "e", "\"", "]", "}" >>

BracketsAcrossLines ==
    << "[", "a", "\n", "i", "m", "a", "g", "e", "]" >>

CopilotFileRef ==
    << "c", "o", "p", "i", "l", "o", "t", "-", "f", "i", "l", "e", ":",
       "/", "/", "f", "1" >>

UrlOnly ==
    << "h", "t", "t", "p", "s", ":", "/", "/", "x", ".", "i", "o", "/",
       "c", "a", "t", ".", "p", "n", "g" >>

Hello ==
    << "H", "e", "l", "l", "o" >>

\* a content: a string, an array of parts, an object (its string-valued fields as
\* pairs of key and value) or null
StringContent(chars) ==
    [kind |-> "string", chars |-> chars, parts |-> << >>, fields |-> << >>]
ArrayContent(parts) ==
    [kind |-> "array", chars |-> << >>, parts |-> parts, fields |-> << >>]
ObjectContent(fields) ==
    [kind |-> "object", chars |-> << >>, parts |-> << >>, fields |-> fields]
NullContent ==
    [kind |-> "null", chars |-> << >>, parts |-> << >>, fields |-> << >>]

\* a part of an array content: its type, and whether it has a truthy image_url
Part(type, imageUrl) == [type |-> type, image_url |-> imageUrl]
TextPart == Part("text", FALSE)
ImageUrlPart == Part("image_url", TRUE)
ImagePart == Part("image", FALSE)
FilePart == Part("file", FALSE)
UntypedImagePart == Part("", TRUE)

\* a message; type "" stands for no message-level type
Message(role, type, content) == [role |-> role, type |-> type, content |-> content]
Plain(chars) == Message("user", "", StringContent(chars))

SuppliedMessages ==
    { << >>,
      << Plain(Hello) >>,
      << Plain(TextMentionsImage) >>,
      << Plain(LongDataUrl) >>,
      << Plain(ShortDataUrl) >>,
      << Plain(JsonWithImage) >>,
      << Plain(BracketsAcrossLines) >>,
      << Plain(CopilotFileRef) >>,
      << Message("user", "text", StringContent(Hello)) >>,
      << Message("user", "file", StringContent(UrlOnly)) >>,
      << Message("user", "image", StringContent(Hello)) >>,
      << Message("user", "file_binary", StringContent(Hello)) >>,
      << Message("system", "", StringContent(Hello)),
         Message("user", "file", StringContent(LongDataUrl)) >>,
      << Message("user", "", ArrayContent(<< TextPart >>)) >>,
      << Message("user", "", ArrayContent(<< TextPart, ImageUrlPart >>)) >>,
      << Message("user", "", ArrayContent(<< ImagePart >>)) >>,
      << Message("user", "", ArrayContent(<< UntypedImagePart >>)) >>,
      << Message("user", "", ArrayContent(<< TextPart, FilePart >>)) >>,
      << Message("user", "", ObjectContent(<< << ImageWord, ShortDataUrl >> >>)) >>,
      << Message("system", "", NullContent),
         Message("user", "text", ObjectContent(<< << Hello, BracketsAcrossLines >>,
                                                  << ImageWord, Hello >> >>)) >> }

(***************************************************************************)
(* execute, lines 94-166: the messages of the item.                        *)
(***************************************************************************)
\* manual mode: role and content are copied, the type only if it is text or image_url
ManualMessage(msg) ==
    Message(msg.role,
            IF msg.type # "" /\ (msg.type = "text" \/ msg.type = "image_url")
            THEN msg.type ELSE "",
            msg.content)

DefaultMessage == Message("user", "", StringContent(Hello))

\* the messages parsed from the parameters; in JSON mode they are taken as supplied
ParsedMessages(mode, supplied) ==
    LET messages == IF mode = "json"
                    THEN supplied
                    ELSE [k \in 1 .. Len(supplied) |-> ManualMessage(supplied[k])]
    IN  IF Len(messages) = 0 THEN << DefaultMessage >> ELSE messages

\* lines 169-199: a part of type file inside a content array is refused
FileInContentArray(messages) ==
    \E k \in 1 .. Len(messages) :
        /\ messages[k].content.kind = "array"
        /\ \E p \in 1 .. Len(messages[k].content.parts) :
              messages[k].content.parts[p].type = "file"

(***************************************************************************)
(* execute, lines 203-221: a content that is an object becomes its JSON    *)
(* text, JSON.stringify(content, null, 2).                                 *)
(***************************************************************************)
\* a string as JSON writes it between its quotes
RECURSIVE JsonEscape(_)
JsonEscape(chars) ==
    IF Len(chars) = 0 THEN << >>
    ELSE ( IF Head(chars) = "\"" THEN << "\\", "\"" >>
           ELSE IF Head(chars) = "\\" THEN << "\\", "\\" >>
           ELSE IF Head(chars) = "\n" THEN << "\\", "n" >>
           ELSE << Head(chars) >> )
         \o JsonEscape(Tail(chars))

\* the fields from the k-th on, each on a line of its own, indented by two
RECURSIVE JsonFields(_, _)
JsonFields(fields, k) ==
    IF k > Len(fields) THEN << >>
    ELSE << "\n", " ", " ", "\"" >> \o JsonEscape(fields[k][1]) \o << "\"", ":", " ", "\"" >>
         \o JsonEscape(fields[k][2]) \o << "\"" >>
         \o ( IF k < Len(fields) THEN << "," >> ELSE << >> )
         \o JsonFields(fields, k + 1)

JSONstringify(fields) ==
    IF Len(fields) = 0 THEN << "{", "}" >>
    ELSE << "{" >> \o JsonFields(fields, 1) \o << "\n", "}" >>

\* variant: the contents are left as they are
NormalizedMessagesKeepsObjects(messages) == messages

NormalizedMessages(messages) ==
    [k \in 1 .. Len(messages) |->
        IF messages[k].content.kind = "object"
        THEN [messages[k] EXCEPT !.content = StringContent(JSONstringify(@.fields))]
        ELSE messages[k]]

\* the messages of the item as the request body takes them
Messages(item) ==
    NormalizedMessages(ParsedMessages(item.input.mode, item.input.supplied))

(***************************************************************************)
(* execute, lines 333-359: detection of vision content.                    *)
(***************************************************************************)
MessageHasVision(msg) ==
    \/ msg.type = "file" \/ msg.type = "image"
    \/ /\ msg.content.kind = "string"
       /\ \/ includes(msg.content.chars, DataImage)
          \/ matchBracketImage(msg.content.chars)
          \/ startsWith(msg.content.chars, CopilotFile)
    \/ /\ msg.content.kind = "array"
       /\ \E p \in 1 .. Len(msg.content.parts) :
             LET part == msg.content.parts[p]
             IN  \/ part.type = "image_url"
                 \/ part.type = "image"
                 \/ part.image_url
                 \/ part.type = "file"

hasVisionContent(messages) ==
    \E k \in 1 .. Len(messages) : MessageHasVision(messages[k])

(***************************************************************************)
(* The errors of an item and the catch block (lines 608-744).              *)
(***************************************************************************)
\* the texts of the node: the messages it throws (their leading sentence; the model id
\* a message names is held apart, in names), the patterns of the cleaning, the messages
\* it emits
Texts ==
    [
      CustomModelRequired |->
        << "C", "u", "s", "t", "o", "m", " ", "m", "o", "d", "e", "l", " ",
           "n", "a", "m", "e", " ", "i", "s", " ", "r", "e", "q", "u", "i",
           "r", "e", "d" >>,
      FailedToParseMessages |->
        << "F", "a", "i", "l", "e", "d", " ", "t", "o", " ", "p", "a", "r",
           "s", "e", " ", "m", "e", "s", "s", "a", "g", "e", "s", " ", "J",
           "S", "O", "N" >>,
      FileInContentArray |->
        << "F", "i", "l", "e", " ", "a", "t", "t", "a", "c", "h", "m", "e",
           "n", "t", "s", " ", "c", "a", "n", "n", "o", "t", " ", "b", "e",
           " ", "u", "s", "e", "d", " ", "i", "n", "s", "i", "d", "e", " ",
           "'", "c", "o", "n", "t", "e", "n", "t", "'", " ", "a", "r", "r",
           "a", "y", "." >>,
      NoFallbackModel |->
        << "V", "i", "s", "i", "o", "n", " ", "f", "a", "l", "l", "b", "a",
           "c", "k", " ", "e", "n", "a", "b", "l", "e", "d", " ", "b", "u",
           "t", " ", "n", "o", " ", "f", "a", "l", "l", "b", "a", "c", "k",
           " ", "m", "o", "d", "e", "l", " ", "w", "a", "s", " ", "s", "e",
           "l", "e", "c", "t", "e", "d", " ", "o", "r", " ", "p", "r", "o",
           "v", "i", "d", "e", "d", "." >>,
      VisionUnsupported |->
        << "M", "o", "d", "e", "l", " ", "d", "o", "e", "s", " ", "n", "o",
           "t", " ", "s", "u", "p", "p", "o", "r", "t", " ", "v", "i", "s",
           "i", "o", "n", "/", "i", "m", "a", "g", "e", " ", "p", "r", "o",
           "c", "e", "s", "s", "i", "n", "g", "." >>,
      NoCredentials |->
        << "N", "o", "d", "e", " ", "d", "o", "e", "s", " ", "n", "o", "t",
           " ", "h", "a", "v", "e", " ", "a", "n", "y", " ", "c", "r", "e",
           "d", "e", "n", "t", "i", "a", "l", "s", " ", "s", "e", "t" >>,
      tokenUsed |->
        << "[", "T", "o", "k", "e", "n", " ", "u", "s", "e", "d", ":", " " >>,
      attempt |->
        << "[", "A", "t", "t", "e", "m", "p", "t", ":", " " >>,
      prefix |->
        << "g", "i", "t", "h", "u", "b", " ", "c", "o", "p", "i", "l", "o",
           "t", " ", "a", "p", "i", " ", "e", "r", "r", "o", "r", ":" >>,
      badRequest |->
        << "B", "a", "d", " ", "R", "e", "q", "u", "e", "s", "t", " ", "(",
           "4", "0", "0", ")", ":", " " >>,
      quota |->
        << "Y", "o", "u", " ", "e", "x", "c", "e", "e", "d", "e", "d", " ",
           "y", "o", "u", "r", " ", "c", "u", "r", "r", "e", "n", "t", " ",
           "q", "u", "o", "t", "a", ",", " ", "p", "l", "e", "a", "s", "e",
           " ", "c", "h", "e", "c", "k", " ", "y", "o", "u", "r", " ", "p",
           "l", "a", "n", " ", "a", "n", "d", " ", "b", "i", "l", "l", "i",
           "n", "g", " ", "d", "e", "t", "a", "i", "l", "s", "." >>,
      contextLength |->
        << "T", "h", "i", "s", " ", "m", "o", "d", "e", "l", "'", "s", " ",
           "m", "a", "x", "i", "m", "u", "m", " ", "c", "o", "n", "t", "e",
           "x", "t", " ", "l", "e", "n", "g", "t", "h", " ", "i", "s", " ",
           "e", "x", "c", "e", "e", "d", "e", "d", "." >>,
      apiKey |->
        << "I", "n", "c", "o", "r", "r", "e", "c", "t", " ", "A", "P", "I",
           " ", "k", "e", "y", " ", "p", "r", "o", "v", "i", "d", "e", "d",
           "." >>,
      rateLimit |->
        << "R", "a", "t", "e", " ", "l", "i", "m", "i", "t", " ", "r", "e",
           "a", "c", "h", "e", "d", ".", " ", "P", "l", "e", "a", "s", "e",
           " ", "w", "a", "i", "t", " ", "b", "e", "f", "o", "r", "e", " ",
           "m", "a", "k", "i", "n", "g", " ", "m", "o", "r", "e", " ", "r",
           "e", "q", "u", "e", "s", "t", "s", "." >>,
      timeoutText |->
        << "R", "e", "q", "u", "e", "s", "t", " ", "t", "i", "m", "e", "o",
           "u", "t", ".", " ", "P", "l", "e", "a", "s", "e", " ", "t", "r",
           "y", " ", "a", "g", "a", "i", "n", "." >> ]

\* apiError.error: the error details of the API's response body, if the error has them
NoApiError == [present |-> FALSE, message |-> << >>, type |-> "", code |-> ""]

NoError == [type |-> "none", names |-> "", message |-> << >>, api |-> NoApiError]
LocalError(type, names) ==
    [type |-> type, names |-> names, message |-> Texts[type], api |-> NoApiError]

\* what a rejected chat request throws: a message with the token and attempt marks of
\* the request helper, and with or without the error details of the response body
ApiErrors ==
  {
    [type |-> "Forbidden403", names |-> "",
     message |->
        << "G", "i", "t", "H", "u", "b", " ", "C", "o", "p", "i", "l", "o",
           "t", " ", "A", "P", "I", " ", "e", "r", "r", "o", "r", ":", " ",
           "4", "0", "3", " ", "A", "c", "c", "e", "s", "s", " ", "F", "o",
           "r", "b", "i", "d", "d", "e", "n", " ", "[", "T", "o", "k", "e",
           "n", " ", "u", "s", "e", "d", ":", " ", "g", "h", "o", "_", "a",
           "b", ".", ".", ".", "y", "z", "]", " ", "[", "A", "t", "t", "e",
           "m", "p", "t", ":", " ", "1", "/", "3", "]" >>,
     api |-> NoApiError],
    [type |-> "Status400", names |-> "",
     message |->
        << "G", "i", "t", "H", "u", "b", " ", "C", "o", "p", "i", "l", "o",
           "t", " ", "A", "P", "I", " ", "e", "r", "r", "o", "r", ":", " ",
           "4", "0", "0", " ", " ", "[", "T", "o", "k", "e", "n", " ", "u",
           "s", "e", "d", ":", " ", "g", "h", "o", "_", "a", "b", ".", ".",
           ".", "y", "z", "]", " ", "[", "A", "t", "t", "e", "m", "p", "t",
           ":", " ", "1", "/", "3", "]" >>,
     api |-> NoApiError],
    [type |-> "BadRequestWords", names |-> "",
     message |->
        << "B", "a", "d", " ", " ", "R", "e", "q", "u", "e", "s", "t", " ",
           "[", "A", "t", "t", "e", "m", "p", "t", ":", " ", "2", "/", "3",
           "]" >>,
     api |-> NoApiError],
    [type |-> "Timeout", names |-> "",
     message |->
        << " ", " ", "[", "A", "t", "t", "e", "m", "p", "t", ":", " ", "3",
           "/", "3", "]", " ", "T", "i", "m", "e", "o", "u", "t", " ", "o",
           "f", " ", "3", "0", "0", "0", "0", "m", "s", " ", " ", "e", "x",
           "c", "e", "e", "d", "e", "d", " ", "[", "T", "o", "k", "e", "n",
           " ", "u", "s", "e", "d", ":", " ", "g", "h", "o", "_", "a", "b",
           ".", ".", ".", "y", "z", "]" >>,
     api |-> NoApiError],
    [type |-> "ServerError", names |-> "",
     message |->
        << "G", "i", "t", "H", "u", "b", " ", "C", "o", "p", "i", "l", "o",
           "t", " ", "A", "P", "I", " ", "e", "r", "r", "o", "r", ":", " ",
           "5", "0", "0", " ", "[", "T", "o", "k", "e", "n", " ", "u", "s",
           "e", "d", ":", " ", "g", "h", "o", "_", "a", "b", ".", ".", ".",
           "y", "z", "]", " ", "[", "A", "t", "t", "e", "m", "p", "t", ":",
           " ", "3", "/", "3", "]" >>,
     api |-> [present |-> TRUE, message |->
          << "T", "h", "e", " ", "s", "e", "r", "v", "e", "r", " ", "h", "a",
             "d", " ", "a", "n", " ", "e", "r", "r", "o", "r" >>,
       type |-> "server_error", code |-> ""]],
    [type |-> "InvalidBody", names |-> "",
     message |->
        << "R", "e", "q", "u", "e", "s", "t", " ", "f", "a", "i", "l", "e",
           "d", " ", "[", "T", "o", "k", "e", "n", " ", "u", "s", "e", "d",
           ":", " ", "g", "h", "o", "_", "a", "b", ".", ".", ".", "y", "z",
           "]" >>,
     api |-> [present |-> TRUE, message |->
          << "I", "n", "v", "a", "l", "i", "d", " ", "m", "e", "s", "s", "a",
             "g", "e", "s" >>,
       type |-> "invalid_request_error", code |-> "invalid_request_body"]],
    [type |-> "Unknown", names |-> "",
     message |->
        << "[", "T", "o", "k", "e", "n", " ", "u", "s", "e", "d", ":", " ",
           "g", "h", "o", "_", "a", "b", ".", ".", ".", "y", "z", "]", " ",
           "[", "A", "t", "t", "e", "m", "p", "t", ":", " ", "1", "/", "3",
           "]" >>,
     api |-> [present |-> TRUE, message |->
          << >>,
       type |-> "", code |-> ""]] }

Whitespace == { " ", "\t", "\n", "\r" }
Digits == { "0", "1", "2", "3", "4", "5", "6", "7", "8", "9" }

RECURSIVE TrimStart(_)
TrimStart(s) ==
    IF Len(s) > 0 /\ Head(s) \in Whitespace THEN TrimStart(Tail(s)) ELSE s

RECURSIVE TrimEnd(_)
TrimEnd(s) ==
    IF Len(s) > 0 /\ s[Len(s)] \in Whitespace
    THEN TrimEnd(SubSeq(s, 1, Len(s) - 1)) ELSE s

trim(s) == TrimEnd(TrimStart(s))

\* the position after the digits that start at k
RECURSIVE DigitsEnd(_, _)
DigitsEnd(s, k) ==
    IF k <= Len(s) /\ s[k] \in Digits THEN DigitsEnd(s, k + 1) ELSE k

\* the characters of s at the positions kept, in their order
Keep(s, kept) ==
    [n \in 1 .. Cardinality(kept) |->
        s[CHOOSE j \in kept : Cardinality({ x \in kept : x < j }) = n - 1]]

\* replace(/\[Token used: [^\]]+\]/g, ''): the end of the match that starts at k, 0
\* if none does; a match that starts inside another one ends where that one ends
TokenUsedEnd(s, k) ==
    LET close == IF MatchAt(s, Texts.tokenUsed, k)
                 THEN IndexFrom(s, "]", k + Len(Texts.tokenUsed))
                 ELSE 0
    IN  IF close > k + Len(Texts.tokenUsed) THEN close ELSE 0

RemoveTokenUsed(s) ==
    Keep(s, { j \in 1 .. Len(s) : \A k \in 1 .. j : TokenUsedEnd(s, k) < j })

\* replace(/\[Attempt: \d+\/\d+\]/g, ''): the end of the match that starts at k, 0
\* if none does; two matches never overlap
AttemptEnd(s, k) ==
    LET a == k + Len(Texts.attempt)
        b == DigitsEnd(s, a)
        c == DigitsEnd(s, b + 1)
    IN  IF /\ MatchAt(s, Texts.attempt, k)
           /\ b > a /\ b <= Len(s) /\ s[b] = "/"
           /\ c > b + 1 /\ c <= Len(s) /\ s[c] = "]"
        THEN c ELSE 0

RemoveAttempt(s) ==
    Keep(s, { j \in 1 .. Len(s) : \A k \in 1 .. j : AttemptEnd(s, k) < j })

\* replace(/^GitHub Copilot API error:\s*/i, '')
RemovePrefix(s) ==
    IF MatchAtIgnoreCase(s, Texts.prefix, 1)
    THEN TrimStart(SubSeq(s, Len(Texts.prefix) + 1, Len(s)))
    ELSE s

\* replace(/\s+/g, ' '): a run of white space becomes one space
CollapseSpaces(s) ==
    LET spaced == [k \in 1 .. Len(s) |-> IF s[k] \in Whitespace THEN " " ELSE s[k]]
    IN  Keep(spaced, { k \in 1 .. Len(s) :
                         ~(s[k] \in Whitespace /\ k > 1 /\ s[k - 1] \in Whitespace) })

\* variant: the attempt marks are left in
cleanMessageKeepsAttempt(errorMessage) ==
    trim(CollapseSpaces(trim(RemovePrefix(trim(RemoveTokenUsed(errorMessage))))))

\* lines 616-629
cleanMessage(errorMessage) ==
    trim(CollapseSpaces(
            trim(RemovePrefix(trim(RemoveAttempt(trim(RemoveTokenUsed(errorMessage))))))))

\* line 655: cleanMessage.toLowerCase()
toLowerCaseAll(s) == [k \in 1 .. Len(s) |-> toLowerCase(s[k])]

\* lines 654-659; apiError.error is what the response body says, if the error has it
is400Error(lowerMessage, apiError) ==
    \/ includes(lowerMessage, << "4", "0", "0" >>)
    \/ includes(lowerMessage, << "b", "a", "d", " ", "r", "e", "q", "u", "e", "s", "t" >>)
    \/ apiError.present /\ apiError.code = "invalid_request_body"

\* lines 670-718: message, type and code of the error item
Classified(clean, lowerMessage, apiError) ==
    LET As(message, type, code) ==
            [message |-> message, type |-> type, code |-> code,
             param |-> IF code = "context_length_exceeded" THEN "max_tokens" ELSE ""]
        forbidden == includes(lowerMessage, << "f", "o", "r", "b", "i", "d", "d", "e", "n" >>)
    IN  IF apiError.present
        THEN As(IF apiError.message # << >> THEN apiError.message ELSE clean,
                IF apiError.type # "" THEN apiError.type ELSE "invalid_request_error",
                apiError.code)
        ELSE IF includes(lowerMessage, << "4", "0", "3" >>) \/ forbidden
        THEN As(IF includes(lowerMessage, << "a", "c", "c", "e", "s", "s" >>) /\ forbidden
                THEN Texts.quota ELSE clean,
                "invalid_request_error", "insufficient_quota")
        ELSE IF /\ includes(lowerMessage, << "m", "a", "x" >>)
                /\ includes(lowerMessage, << "t", "o", "k", "e", "n" >>)
        THEN As(Texts.contextLength, "invalid_request_error", "context_length_exceeded")
        ELSE IF \/ includes(lowerMessage, << "4", "0", "1" >>)
                \/ includes(lowerMessage,
                            << "u", "n", "a", "u", "t", "h", "o", "r", "i", "z", "e", "d" >>)
        THEN As(Texts.apiKey, "invalid_request_error", "invalid_api_key")
        ELSE IF \/ includes(lowerMessage, << "4", "2", "9" >>)
                \/ includes(lowerMessage,
                            << "r", "a", "t", "e", " ", "l", "i", "m", "i", "t" >>)
        THEN As(Texts.rateLimit, "rate_limit_error", "rate_limit_exceeded")
        ELSE IF includes(lowerMessage, << "t", "i", "m", "e", "o", "u", "t" >>)
        THEN As(Texts.timeoutText, "api_error", "timeout")
        ELSE As(clean, "api_error", "internal_error")

\* the catch block's findings for every error an item can end with, computed once
LocalErrorTypes ==
    { "CustomModelRequired", "FailedToParseMessages", "FileInContentArray",
      "NoFallbackModel", "VisionUnsupported", "NoCredentials" }

ErrorSource(error) == [message |-> error.message, api |-> error.api]

Handling ==
    [source \in { ErrorSource(error) : error \in ApiErrors }
                \cup { ErrorSource(LocalError(type, "")) : type \in LocalErrorTypes } |->
        CHOOSE found \in
            UNION { { [clean |-> clean,
                       is400 |-> is400Error(lowerMessage, source.api),
                       item |-> Classified(clean, lowerMessage, source.api)] :
                      lowerMessage \in { toLowerCaseAll(clean) } } :
                    clean \in { cleanMessage(source.message) } } : TRUE]

\* what leaves execute instead of its return value
NotRaised == [kind |-> "none", message |-> << >>]
BadRequest(error) ==
    [kind |-> "BadRequest",
     message |-> Texts.badRequest \o Handling[ErrorSource(error)].clean]
Rethrown(error) == [kind |-> "rethrown", message |-> error.message]

(***************************************************************************)
(* execute, lines 60-91: the model of the item.                            *)
(***************************************************************************)
\* !s || s.trim() === '' on the names the items carry
Blank(s) == s \in { "", " ", "  " }

Manual == "__manual__"

\* the requested model, or the error that ends the item
RequestedModel(input) ==
    IF input.modelSource = "custom"
    THEN IF Blank(input.customModel)
         THEN [model |-> "", error |-> LocalError("CustomModelRequired", "")]
         ELSE [model |-> input.customModel, error |-> NoError]
    ELSE IF input.model = Manual
         THEN IF Blank(input.customModel)
              THEN [model |-> "", error |-> LocalError("CustomModelRequired", "")]
              ELSE [model |-> input.customModel, error |-> NoError]
         ELSE [model |-> input.model, error |-> NoError]

\* lines 319-330
modelMapping ==
    "gpt-4" :> "gpt-4o" @@
    "gpt-4o" :> "gpt-4o" @@
    "gpt-4o-mini" :> "gpt-4o-mini" @@
    "gpt-4-turbo" :> "gpt-4o" @@
    "claude-3-5-sonnet" :> "claude-3.5-sonnet" @@
    "claude-3.5-sonnet-20241022" :> "claude-3.5-sonnet" @@
    "o1" :> "o1" @@
    "o1-preview" :> "o1-preview" @@
    "o1-mini" :> "o1-mini"

\* line 331: modelMapping[model] || model
MappedModel(model) ==
    IF model \in DOMAIN modelMapping THEN modelMapping[model] ELSE model

\* the bundled table of well-known models: whether the model has vision
StaticTable ==
    "gpt-4o" :> TRUE @@
    "gpt-4o-mini" :> FALSE @@
    "m1" :> FALSE @@
    "m2" :> TRUE

\* lines 372-373: the static answer; a model the table does not know has no vision
StaticVision(modelId) ==
    modelId \in DOMAIN StaticTable /\ StaticTable[modelId]

\* what the node's credential and the cache of its process may be
NodeTokens == { TokenAa, Undefined }
ListingGpt ==
    << Descriptor("gpt-4o", FALSE, FALSE, TRUE), Descriptor("m2", TRUE, FALSE, TRUE) >>
NodeListings == { Listing1, ListingGpt }

(***************************************************************************)
(* The parameters of an item.                                              *)
(***************************************************************************)
ModelChoice(modelSource, model, customModel) ==
    [modelSource |-> modelSource, model |-> model, customModel |-> customModel]

DefaultChoice == ModelChoice("fromList", "m1", "")

ModelChoices ==
    { DefaultChoice,
      ModelChoice("fromList", "m2", ""),
      ModelChoice("fromList", "gpt-4", ""),
      ModelChoice("fromList", "gpt-4o", ""),
      ModelChoice("fromList", Manual, "m3"),
      ModelChoice("fromList", Manual, " "),
      ModelChoice("custom", "m1", "m2"),
      ModelChoice("custom", "m1", ""),
      ModelChoice("custom", "m1", "gpt-4-turbo") }

Policy(enableVisionFallback, visionFallbackModel, visionFallbackCustomModel) ==
    [enableVisionFallback |-> enableVisionFallback,
     visionFallbackModel |-> visionFallbackModel,
     visionFallbackCustomModel |-> visionFallbackCustomModel]

NoFallback == Policy(FALSE, "", "")

Policies ==
    { NoFallback,
      Policy(FALSE, "m2", ""),
      Policy(TRUE, "m1", ""),
      Policy(TRUE, "m2", ""),
      Policy(TRUE, "", ""),
      Policy(TRUE, Manual, "m2"),
      Policy(TRUE, Manual, "  "),
      Policy(TRUE, "gpt-4", "") }

Input(choice, mode, parses, supplied, policy) ==
    [modelSource |-> choice.modelSource, model |-> choice.model,
     customModel |-> choice.customModel,
     mode |-> mode, parses |-> parses, supplied |-> supplied,
     enableVisionFallback |-> policy.enableVisionFallback,
     visionFallbackModel |-> policy.visionFallbackModel,
     visionFallbackCustomModel |-> policy.visionFallbackCustomModel]

ImageMessages == << Message("user", "", ArrayContent(<< TextPart, ImageUrlPart >>)) >>

Inputs ==
    { Input(DefaultChoice, mode, TRUE, supplied, NoFallback) :
          mode \in { "manual", "json" }, supplied \in SuppliedMessages }
    \cup { Input(choice, "json", TRUE, ImageMessages, policy) :
               choice \in ModelChoices, policy \in Policies }
    \cup { Input(choice, "manual", TRUE, << Plain(Hello) >>, NoFallback) :
               choice \in ModelChoices }
    \cup { Input(DefaultChoice, "json", FALSE, << >>, NoFallback) }

\* the items after the first vary less
LaterInputs ==
    { Input(DefaultChoice, "manual", TRUE, << Plain(Hello) >>, NoFallback),
      Input(ModelChoice("fromList", "m2", ""), "json", TRUE, ImageMessages, NoFallback),
      Input(ModelChoice("custom", "m1", ""), "manual", TRUE, << >>, NoFallback) }

ItemInputs(index) == IF index = 0 THEN Inputs ELSE LaterInputs

(***************************************************************************)
(* execute, lines 59-359: the item up to the vision check.                 *)
(***************************************************************************)
NoRequest == [sent |-> FALSE, model |-> "", messages |-> << >>, vision |-> FALSE]

NoItem ==
    [active |-> FALSE, input |-> Input(DefaultChoice, "manual", TRUE, << >>, NoFallback),
     model |-> "", copilotModel |-> "", hasVisionContent |-> FALSE,
     credentialsRead |-> FALSE, oauthToken |-> Undefined,
     cacheRead |-> FALSE, cacheAnswer |-> "null", staticRead |-> FALSE,
     fallbackUsed |-> FALSE, request |-> NoRequest, error |-> NoError,
     raised |-> NotRaised]

Prepared(input) ==
    LET requested == RequestedModel(input)
        messages == ParsedMessages(input.mode, input.supplied)
        item == [NoItem EXCEPT !.active = TRUE, !.input = input]
    IN  IF requested.error # NoError
        THEN [item EXCEPT !.error = requested.error]
        ELSE IF input.mode = "json" /\ ~input.parses
        THEN [item EXCEPT !.model = requested.model,
                          !.error = LocalError("FailedToParseMessages", "")]
        ELSE IF FileInContentArray(messages)
        THEN [item EXCEPT !.model = requested.model,
                          !.error = LocalError("FileInContentArray", "")]
        ELSE [item EXCEPT !.model = requested.model,
                          !.copilotModel = MappedModel(requested.model),
                          !.hasVisionContent =
                              hasVisionContent(NormalizedMessages(messages))]

(***************************************************************************)
(* execute, lines 362-405: the vision check, once the credentials are      *)
(* there.                                                                  *)
(***************************************************************************)
\* variant: the static table is asked first, the cache only if it says no
VisionCheckedStaticFirst(item, c, oauthToken) ==
    LET cacheAnswer == modelSupportsVision(c, oauthToken, item.copilotModel)
        supportsVision == StaticVision(item.copilotModel) \/ cacheAnswer = "true"
        policy == item.input
        fallbackModel == IF policy.visionFallbackModel = Manual
                         THEN policy.visionFallbackCustomModel
                         ELSE policy.visionFallbackModel
        checked == [item EXCEPT !.credentialsRead = TRUE,
                                !.oauthToken = oauthToken,
                                !.cacheRead = TRUE,
                                !.cacheAnswer = cacheAnswer,
                                !.staticRead = (cacheAnswer = "null")]
    IN  IF supportsVision
        THEN checked
        ELSE IF policy.enableVisionFallback
        THEN IF Blank(fallbackModel)
             THEN [checked EXCEPT !.error = LocalError("NoFallbackModel", "")]
             ELSE [checked EXCEPT !.copilotModel = fallbackModel, !.fallbackUsed = TRUE]
        ELSE [checked EXCEPT
                 !.error = LocalError("VisionUnsupported", item.copilotModel)]

\* variant: the selected fallback value is used as it is, the marker included
VisionCheckedRawMarker(item, c, oauthToken) ==
    LET cacheAnswer == modelSupportsVision(c, oauthToken, item.copilotModel)
        supportsVision == IF cacheAnswer = "null"
                          THEN StaticVision(item.copilotModel)
                          ELSE cacheAnswer = "true"
        policy == item.input
        fallbackModel == policy.visionFallbackModel
        checked == [item EXCEPT !.credentialsRead = TRUE,
                                !.oauthToken = oauthToken,
                                !.cacheRead = TRUE,
                                !.cacheAnswer = cacheAnswer,
                                !.staticRead = (cacheAnswer = "null")]
    IN  IF supportsVision
        THEN checked
        ELSE IF policy.enableVisionFallback
        THEN IF Blank(fallbackModel)
             THEN [checked EXCEPT !.error = LocalError("NoFallbackModel", "")]
             ELSE [checked EXCEPT !.copilotModel = fallbackModel, !.fallbackUsed = TRUE]
        ELSE [checked EXCEPT
                 !.error = LocalError("VisionUnsupported", item.copilotModel)]

\* variant: with the fallback disabled the model is kept
VisionCheckedLenient(item, c, oauthToken) ==
    LET cacheAnswer == modelSupportsVision(c, oauthToken, item.copilotModel)
        supportsVision == IF cacheAnswer = "null"
                          THEN StaticVision(item.copilotModel)
                          ELSE cacheAnswer = "true"
        policy == item.input
        fallbackModel == IF policy.visionFallbackModel = Manual
                         THEN policy.visionFallbackCustomModel
                         ELSE policy.visionFallbackModel
        checked == [item EXCEPT !.credentialsRead = TRUE,
                                !.oauthToken = oauthToken,
                                !.cacheRead = TRUE,
                                !.cacheAnswer = cacheAnswer,
                                !.staticRead = (cacheAnswer = "null")]
    IN  IF supportsVision
        THEN checked
        ELSE IF policy.enableVisionFallback
        THEN IF Blank(fallbackModel)
             THEN [checked EXCEPT !.error = LocalError("NoFallbackModel", "")]
             ELSE [checked EXCEPT !.copilotModel = fallbackModel, !.fallbackUsed = TRUE]
        ELSE checked

VisionChecked(item, c, oauthToken) ==
    LET cacheAnswer == modelSupportsVision(c, oauthToken, item.copilotModel)
        supportsVision == IF cacheAnswer = "null"
                          THEN StaticVision(item.copilotModel)
                          ELSE cacheAnswer = "true"
        policy == item.input
        fallbackModel == IF policy.visionFallbackModel = Manual
                         THEN policy.visionFallbackCustomModel
                         ELSE policy.visionFallbackModel
        checked == [item EXCEPT !.credentialsRead = TRUE,
                                !.oauthToken = oauthToken,
                                !.cacheRead = TRUE,
                                !.cacheAnswer = cacheAnswer,
                                !.staticRead = (cacheAnswer = "null")]
    IN  IF supportsVision
        THEN checked
        ELSE IF policy.enableVisionFallback
        THEN IF Blank(fallbackModel)
             THEN [checked EXCEPT !.error = LocalError("NoFallbackModel", "")]
             ELSE [checked EXCEPT !.copilotModel = fallbackModel, !.fallbackUsed = TRUE]
        ELSE [checked EXCEPT
                 !.error = LocalError("VisionUnsupported", item.copilotModel)]

(***************************************************************************)
(* execute as a process: its steps are the stretches between its awaits.   *)
(***************************************************************************)
\* an entry of returnData: an output or an error item, paired with its input item
\* variant: the output names the model id the request was sent with
OutputNamesSentModel(item, index) ==
    [kind |-> "output", pairedItem |-> index, model |-> item.request.model,
     error |-> [message |-> << >>, type |-> "", code |-> "", param |-> ""]]

\* lines 546-550, 604-607
Output(item, index) ==
    [kind |-> "output", pairedItem |-> index, model |-> item.model,
     error |-> [message |-> << >>, type |-> "", code |-> "", param |-> ""]]
ErrorItem(item, index) ==
    [kind |-> "error", pairedItem |-> index, model |-> "",
     error |-> Handling[ErrorSource(item.error)].item]

\* variant: with continueOnFail every error, a 400 too, becomes an error item
CaughtNeverAborts(item) ==
    IF continueOnFail
    THEN /\ cur' = item
         /\ returnData' = Append(returnData, ErrorItem(item, itemIndex))
         /\ pc' = "done"
    ELSE /\ cur' = [item EXCEPT !.raised = Rethrown(item.error)]
         /\ pc' = "thrown"
         /\ UNCHANGED returnData

\* variant: with continueOnFail the error is swallowed and nothing is pushed
CaughtSilently(item) ==
    IF continueOnFail
    THEN /\ cur' = item
         /\ pc' = "done"
         /\ UNCHANGED returnData
    ELSE /\ cur' = [item EXCEPT !.raised = Rethrown(item.error)]
         /\ pc' = "thrown"
         /\ UNCHANGED returnData

\* lines 608-744, the catch block: with continueOnFail an error item is pushed, unless
\* the error is a 400; otherwise the error leaves execute
Caught(item) ==
    IF continueOnFail
    THEN IF Handling[ErrorSource(item.error)].is400
         THEN /\ cur' = [item EXCEPT !.raised = BadRequest(item.error)]
              /\ pc' = "thrown"
              /\ UNCHANGED returnData
         ELSE /\ cur' = item
              /\ returnData' = Append(returnData, ErrorItem(item, itemIndex))
              /\ pc' = "done"
    ELSE /\ cur' = [item EXCEPT !.raised = Rethrown(item.error)]
         /\ pc' = "thrown"
         /\ UNCHANGED returnData

\* variant: the chat request is sent and not awaited
SendWithoutAwait(item) ==
    /\ cur' = [item EXCEPT !.request = [sent |-> TRUE,
                                        model |-> item.copilotModel,
                                        messages |-> Messages(item),
                                        vision |-> item.hasVisionContent]]
    /\ inFlight' = inFlight + 1
    /\ pc' = "done"
    /\ returnData' = Append(returnData, Output(item, itemIndex))

\* lines 407-501: the request body is built and the chat request sent and awaited
Send(item) ==
    /\ cur' = [item EXCEPT !.request = [sent |-> TRUE,
                                        model |-> item.copilotModel,
                                        messages |-> Messages(item),
                                        vision |-> item.hasVisionContent]]
    /\ inFlight' = inFlight + 1
    /\ pc' = "api"
    /\ UNCHANGED returnData

\* the item ends with its error, or goes on
Proceed(item, Continue) ==
    IF item.error # NoError
    THEN /\ Caught(item)
         /\ UNCHANGED inFlight
    ELSE Continue

\* variant: the credentials are awaited and the vision check made for every item
ItemStartsAlwaysChecks(input) ==
    /\ pc = "loop"
    /\ itemIndex < MaxItems
    /\ LET item == Prepared(input)
       IN  Proceed(item,
                   /\ cur' = item
                   /\ pc' = "creds"
                   /\ UNCHANGED << inFlight, returnData >>)
    /\ UNCHANGED << itemIndex, continueOnFail >>
    /\ UNCHANGED cacheVars

\* lines 58-365: the loop takes the next item, up to the first await
ItemStarts(input) ==
    /\ pc = "loop"
    /\ itemIndex < MaxItems
    /\ LET item == Prepared(input)
       IN  Proceed(item,
                   IF item.hasVisionContent
                   THEN /\ cur' = item
                        /\ pc' = "creds"
                        /\ UNCHANGED << inFlight, returnData >>
                   ELSE Send(item))
    /\ UNCHANGED << itemIndex, continueOnFail >>
    /\ UNCHANGED cacheVars

\* lines 365-501: getCredentials resolves
CredentialsArrive(oauthToken) ==
    /\ pc = "creds"
    /\ LET item == VisionChecked(cur, cache, oauthToken)
       IN  Proceed(item, Send(item))
    /\ UNCHANGED << itemIndex, continueOnFail >>
    /\ UNCHANGED cacheVars

\* line 365: getCredentials rejects
CredentialsMissing ==
    /\ pc = "creds"
    /\ LET item == [cur EXCEPT !.error = LocalError("NoCredentials", "")]
       IN  Proceed(item, FALSE)
    /\ UNCHANGED << itemIndex, continueOnFail >>
    /\ UNCHANGED cacheVars

\* lines 495-607: the chat request resolves and the output is pushed
ApiResolves ==
    /\ pc = "api"
    /\ inFlight' = inFlight - 1
    /\ returnData' = Append(returnData, Output(cur, itemIndex))
    /\ pc' = "done"
    /\ UNCHANGED << itemIndex, cur, continueOnFail >>
    /\ UNCHANGED cacheVars

\* lines 495-501, 608-744: the chat request rejects
ApiRejects(error) ==
    /\ pc = "api"
    /\ inFlight' = inFlight - 1
    /\ Caught([cur EXCEPT !.error = error])
    /\ UNCHANGED << itemIndex, continueOnFail >>
    /\ UNCHANGED cacheVars

\* line 58: i++
LoopAdvance ==
    /\ pc = "done"
    /\ itemIndex' = itemIndex + 1
    /\ cur' = NoItem
    /\ pc' = "loop"
    /\ UNCHANGED << inFlight, returnData, continueOnFail >>
    /\ UNCHANGED cacheVars

\* lines 58, 747: no item is left
Return ==
    /\ pc = "loop"
    /\ pc' = "returned"
    /\ UNCHANGED << itemIndex, cur, inFlight, returnData, continueOnFail >>
    /\ UNCHANGED cacheVars

NodeIdle ==
    /\ pc = "loop"
    /\ itemIndex = 0
    /\ cur = NoItem
    /\ inFlight = 0
    /\ returnData = << >>

(***************************************************************************)
(* Specifications.  Spec: calls overlap, and lookups happen at any time.   *)
(* SeqSpec: a call starts only when no other call awaits its fetch, and    *)
(* the history of the calls is kept.                                       *)
(***************************************************************************)
CacheInit ==
    /\ cache = EmptyCache
    /\ now = 0
    /\ ticks = 0
    /\ started = 0
    /\ calls = EmptyBag
    /\ ev = EvBase
    /\ ref = [t \in Tokens |-> NoRef]
    /\ prevCall = NoPrev

Init ==
    /\ CacheInit
    /\ NodeIdle
    /\ continueOnFail = FALSE

\* execute starts on any cache the calls before it have left
NodeInit ==
    /\ CacheInit
    /\ NodeIdle
    /\ continueOnFail \in BOOLEAN

InFlight == BagToSet(calls)

\* a step of Spec: within its bounds, keeping no history of the calls
Overlapping(A) ==
    /\ A
    /\ started' <= OverlapCalls
    /\ ticks' <= OverlapTicks
    /\ UNCHANGED hist
    /\ UNCHANGED nodeVars

\* a step of SeqSpec
Sequential(A) ==
    /\ A
    /\ started' <= MaxCalls
    /\ ticks' <= MaxTicks
    /\ Remember
    /\ UNCHANGED nodeVars

Next ==
    \/ \E t \in Tokens : Overlapping(getAvailableModels(t))
    \/ \E c \in InFlight, models \in Listings : Overlapping(FetchResolves(c, models))
    \/ \E c \in InFlight : Overlapping(FetchRejects(c))
    \/ \E d \in TickDurations : Overlapping(Tick(d))
    \/ \E t \in Tokens : Overlapping(clearCache(t))
    \/ Overlapping(clearAllCache)
    \/ Overlapping(LookupModel)
    \/ Overlapping(LookupVision)
    \/ Overlapping(LookupTools)
    \/ Overlapping(LookupCapabilities)

SeqNext ==
    \/ \E t \in Tokens : Sequential(InFlight = {} /\ getAvailableModels(t))
    \/ \E c \in InFlight, models \in Listings : Sequential(FetchResolves(c, models))
    \/ \E c \in InFlight : Sequential(FetchRejects(c))
    \/ \E d \in TickDurations : Sequential(Tick(d))
    \/ \E t \in Tokens : Sequential(clearCache(t))
    \/ Sequential(clearAllCache)

\* a step of StormSpec
Storming(A) ==
    /\ A
    /\ started' <= StormCalls
    /\ UNCHANGED hist
    /\ UNCHANGED nodeVars

\* StormSpec: nothing but getAvailableModels calls, as many at once as the bound allows
StormNext ==
    \/ \E t \in Tokens : Storming(getAvailableModels(t))
    \/ \E c \in InFlight, models \in Listings : Storming(FetchResolves(c, models))
    \/ \E c \in InFlight : Storming(FetchRejects(c))

Spec == Init /\ [][Next]_vars

StormSpec == Init /\ [][StormNext]_vars

SeqSpec == Init /\ [][SeqNext]_vars

\* a step of NodeSpec on the cache: before execute takes its first item
Loading(A) ==
    /\ A
    /\ pc = "loop"
    /\ itemIndex = 0
    /\ started' <= NodeCalls
    /\ UNCHANGED hist
    /\ UNCHANGED nodeVars

\* NodeSpec: one execution of the node, on a cache that calls have loaded
NodeNext ==
    \/ \E t \in NodeTokens : Loading(InFlight = {} /\ getAvailableModels(t))
    \/ \E c \in InFlight, models \in NodeListings : Loading(FetchResolves(c, models))
    \/ \E c \in InFlight : Loading(FetchRejects(c))
    \/ \E input \in ItemInputs(itemIndex) : ItemStarts(input)
    \/ \E t \in NodeTokens : CredentialsArrive(t)
    \/ CredentialsMissing
    \/ ApiResolves
    \/ \E error \in ApiErrors : ApiRejects(error)
    \/ LoopAdvance
    \/ Return

NodeSpec == NodeInit /\ [][NodeNext]_vars

(***************************************************************************)
(* What the claims speak about.                                            *)
(***************************************************************************)
\* the step starts a getAvailableModels call (ev is the step's observation)
CallStarts(e) == e.kind = "fetchStarted" \/ (e.kind = "returned" /\ ~e.fetched)

\* the step ends a getAvailableModels call whose fetch failed
FetchFailed(e) == e.kind = "returned" /\ e.fetched /\ ~e.fetchOk

\* the credential's key has no entry, or the entry's listing has no model with the id
Absent(c, token, modelId) ==
    \/ ~Has(c, hashToken[token])
    \/ \A i \in 1 .. Len(c[hashToken[token]].models) :
           c[hashToken[token]].models[i].id # modelId

\* the four lookups answer unknown
Unknown(c, token, modelId) ==
    /\ ~getModelFromCache(c, token, modelId).found
    /\ modelSupportsVision(c, token, modelId) = "null"
    /\ modelSupportsTools(c, token, modelId) = "null"
    /\ ~getModelCapabilities(c, token, modelId).found

\* the first descriptor of a listing with the id of its i-th descriptor
FirstLike(models, i) == models[Find(models, models[i].id)]

(***************************************************************************)
(* C1: under sequential calls, after a call of getAvailableModels(C) that  *)
(* fetched successfully at time t, every later call for C started before   *)
(* t + TTL, with no invalidation in between, returns the same model        *)
(* sequence and issues no fetch.                                           *)
(***************************************************************************)
C1_FreshServedWithoutFetch ==
    [][ ( /\ CallStarts(ev')
          /\ ref[ev'.token].has
          /\ ev'.at < ref[ev'.token].t + CACHE_DURATION_MS )
        => ( /\ ev'.kind = "returned"
             /\ ~ev'.fetched
             /\ ~ev'.threw
             /\ ev'.models = ref[ev'.token].models ) ]_vars

C1_Witness ==
    /\ ev.kind = "returned"
    /\ ~ev.fetched
    /\ ref[ev.token].has
    /\ ev.at > ref[ev.token].t
    /\ ev.at < ref[ev.token].t + CACHE_DURATION_MS
    /\ ev.models = ref[ev.token].models

(***************************************************************************)
(* C2, as stated: getAvailableModels(C), for a usable credential C, ends   *)
(* in an error if and only if its fetch failed and the cache held no       *)
(* entry for C at the moment the fetch failed; whenever an entry for C     *)
(* exists, the call returns.                                               *)
(***************************************************************************)
C2_ErrorIffNoEntryWhenFetchFailed ==
    [][ (ev'.kind = "returned" /\ ~Degenerate(ev'.token))
        => ( ev'.threw <=> ( /\ ev'.fetched
                             /\ ~ev'.fetchOk
                             /\ ~Has(cache, hashToken[ev'.token]) ) ) ]_vars

(***************************************************************************)
(* C3: a getAvailableModels call whose fetch fails leaves every cache      *)
(* entry as it is, and returns the models of the unchanged entry of its    *)
(* credential.                                                             *)
(***************************************************************************)
C3_FailedRefreshKeepsCache ==
    [][ \A c \in InFlight :
          ( FetchFailed(ev') /\ calls' = calls (-) SetToBag({ c }) )
          => /\ cache' = cache
             /\ ( /\ c.hasCached
                  /\ Has(cache, c.tokenHash)
                  /\ cache[c.tokenHash] = c.cached )
                => /\ ~ev'.threw
                   /\ ev'.models = cache'[c.tokenHash].models ]_vars

C3_Witness ==
    /\ FetchFailed(ev)
    /\ ev.hadEntry
    /\ ev.expired
    /\ Has(cache, hashToken[ev.token])
    /\ cache[hashToken[ev.token]].expiresAt <= now
    /\ ev.models = cache[hashToken[ev.token]].models

(***************************************************************************)
(* C4, as stated: under sequential calls, when a call of                   *)
(* getAvailableModels(C), for a usable credential C, found the entry       *)
(* expired, a second call for C less than the minimum refresh interval     *)
(* later issues no fetch, so the two calls issue at most one fetch,        *)
(* whatever the outcome of the first.                                      *)
(***************************************************************************)
C4_CooldownAfterExpiredLookup ==
    [][ ( /\ CallStarts(ev')
          /\ ~Degenerate(ev'.token)
          /\ prevCall.live
          /\ prevCall.token = ev'.token
          /\ ev'.at - prevCall.at < MIN_REFRESH_INTERVAL_MS )
        => ( /\ ~(prevCall.fetched /\ ev'.fetched)
             /\ ev'.kind = "returned"
             /\ ~ev'.fetched ) ]_vars

(***************************************************************************)
(* C5: the capability lookups issue no fetch and change no cache entry;    *)
(* in every state each of them answers unknown if and only if the          *)
(* credential's key has no entry or the entry's listing has no model with  *)
(* the id, and otherwise answers from the first such model of the entry,   *)
(* fresh or expired.                                                       *)
(***************************************************************************)
C5_LookupsReadOnly ==
    /\ [](\A t \in AnyToken, m \in ModelIds :
            LET models == Get(cache, hashToken[t]).models
                d == models[Find(models, m)]
            IN  IF Absent(cache, t, m)
                THEN Unknown(cache, t, m)
                ELSE /\ getModelFromCache(cache, t, m) = [found |-> TRUE, model |-> d]
                     /\ modelSupportsVision(cache, t, m)
                            = (IF d.supportsVision \/ d.limitsVision
                               THEN "true" ELSE "false")
                     /\ modelSupportsTools(cache, t, m)
                            = (IF d.toolCalls THEN "true" ELSE "false")
                     /\ getModelCapabilities(cache, t, m).found
                     /\ getModelCapabilities(cache, t, m).vision
                            = (d.supportsVision \/ d.limitsVision)
                     /\ getModelCapabilities(cache, t, m).tools = d.toolCalls)
    /\ [][ ev'.kind = "lookup"
           => (cache' = cache /\ calls' = calls /\ started' = started) ]_vars

C5_Witness ==
    /\ ev.kind = "lookup"
    /\ \E t \in AnyToken :
          /\ Has(cache, hashToken[t])
          /\ cache[hashToken[t]].expiresAt <= now
          /\ ~Absent(cache, t, "m2")
          /\ Absent(cache, t, "m3")
          /\ modelSupportsTools(cache, t, "m2") = "true"

(***************************************************************************)
(* C6, as stated: after a getAvailableModels(C) that fetched a listing,    *)
(* for every model id of the listing modelSupportsVision(C, id) is true    *)
(* if and only if the listing's descriptor for the id has                  *)
(* capabilities.supports.vision, and false otherwise.                      *)
(***************************************************************************)
C6_VisionIffSupportsVision ==
    (ev.kind = "returned" /\ ev.fetchOk)
    => \A i \in 1 .. Len(ev.models) :
          modelSupportsVision(cache, ev.token, ev.models[i].id)
              = (IF FirstLike(ev.models, i).supportsVision THEN "true" ELSE "false")

(***************************************************************************)
(* C6, amended: after a getAvailableModels(C) that fetched a listing, for  *)
(* every model id of the listing modelSupportsVision(C, id) is true if     *)
(* and only if the first descriptor of the listing with that id has        *)
(* capabilities.supports.vision === true or a truthy                       *)
(* capabilities.limits.vision, and false otherwise.                        *)
(***************************************************************************)
C6_VisionIffSupportsOrLimits ==
    (ev.kind = "returned" /\ ev.fetchOk)
    => \A i \in 1 .. Len(ev.models) :
          LET d == FirstLike(ev.models, i)
          IN  modelSupportsVision(cache, ev.token, ev.models[i].id)
                  = (IF d.supportsVision \/ d.limitsVision THEN "true" ELSE "false")

C6_Witness ==
    /\ ev.kind = "returned"
    /\ ev.fetchOk
    /\ ev.models = Listing2
    /\ modelSupportsVision(cache, ev.token, "m2") = "true"
    /\ modelSupportsVision(cache, ev.token, "m1") = "false"

(***************************************************************************)
(* C7: clearCache(C) and clearAllCache() are idempotent: applied again     *)
(* right after itself either one changes nothing; and right after          *)
(* clearCache(C) every lookup for C, right after clearAllCache() every     *)
(* lookup, answers unknown.                                                *)
(***************************************************************************)
C7_ClearIdempotent ==
    /\ ev.kind = "clearCache"
       => /\ MapDelete(cache, hashToken[ev.token]) = cache
          /\ ~ev.threw
          /\ \A m \in ModelIds : Unknown(cache, ev.token, m)
    /\ ev.kind = "clearAllCache"
       => /\ cache = EmptyCache
          /\ ~ev.threw
          /\ \A t \in AnyToken, m \in ModelIds : Unknown(cache, t, m)

C7_Witness ==
    /\ ev.kind = "clearCache"
    /\ ev.token = TokenAa
    /\ DOMAIN cache = { DefaultKey }
    /\ started = 2
    /\ calls = EmptyBag

(***************************************************************************)
(* C8, as stated: for a degenerate credential (empty string, undefined,    *)
(* non-string) the capability lookups answer unknown in every reachable    *)
(* state of the cache.                                                     *)
(***************************************************************************)
C8_DegenerateLookupsUnknown ==
    \A t \in AnyToken, m \in ModelIds : Degenerate(t) => Unknown(cache, t, m)

(***************************************************************************)
(* C9, as stated: getAvailableModels with a degenerate credential fails    *)
(* immediately: it issues no fetch and leaves every cache entry as it is.  *)
(***************************************************************************)
C9_DegenerateFailsWithoutFetch ==
    [][ ( ev'.kind \in { "fetchStarted", "returned" } /\ Degenerate(ev'.token) )
        => ( /\ ev'.kind = "returned"
             /\ ev'.threw
             /\ ~ev'.fetched
             /\ cache' = cache ) ]_vars

(***************************************************************************)
(* C10, as stated: what getAvailableModels(C1) returns and what the        *)
(* lookups for C1 answer from comes only from a listing fetched with C1    *)
(* itself.                                                                 *)
(***************************************************************************)
C10_OnlyOwnListing ==
    /\ (ev.kind = "returned" /\ ~ev.threw) => ev.origin = ev.token
    /\ \A t \in AnyToken :
          Has(cache, hashToken[t]) => cache[hashToken[t]].fetchedWith = t

(***************************************************************************)
(* C10, amended: the cache is per key: what getAvailableModels(C1)         *)
(* returns and what the lookups for C1 answer from comes only from a       *)
(* listing fetched with a credential whose hashToken key is the key of     *)
(* C1; credentials with the same key (a hash collision, or both            *)
(* degenerate) share their listings.                                       *)
(***************************************************************************)
C10_OnlySameKeyListing ==
    /\ (ev.kind = "returned" /\ ~ev.threw)
       => hashToken[ev.origin] = hashToken[ev.token]
    /\ \A k \in DOMAIN cache :
          /\ hashToken[cache[k].fetchedWith] = k
          /\ cache[k].tokenHash = k
    /\ \A t \in AnyToken :
          Has(cache, hashToken[t])
          => hashToken[cache[hashToken[t]].fetchedWith] = hashToken[t]

C10_Witness ==
    /\ ev.kind = "returned"
    /\ ~ev.threw
    /\ ev.origin # ev.token
    /\ Len(ev.models) > 0

\* how many getAvailableModels calls of a credential await their fetch
Fetching(token) ==
    BagCardinality([c \in { x \in InFlight : x.token = token } |-> calls[c]])

(***************************************************************************)
(* C19, as stated: when getAvailableModels calls for the same credential   *)
(* overlap on a missing or stale entry, they issue at most two outbound    *)
(* fetches (the necessary one and one redundant one), however many calls   *)
(* overlap.                                                                *)
(***************************************************************************)
C19_AtMostOneRedundantFetch ==
    \A t \in Tokens : Fetching(t) <= 2

(***************************************************************************)
(* C20: a getAvailableModels call issues at most one outbound fetch: the   *)
(* step that starts a fetch starts exactly one, for a new call; the step   *)
(* in which a fetch resolves or fails ends that call, with a model         *)
(* sequence or an error, and starts no fetch; no other step starts one.    *)
(***************************************************************************)
C20_OneFetchPerCall ==
    [][ LET before == BagCardinality(calls)
            after == BagCardinality(calls')
        IN  /\ ev'.kind = "fetchStarted"
               => (after = before + 1 /\ started' = started + 1)
            /\ (ev'.kind = "returned" /\ ev'.fetched)
               => /\ after = before - 1
                  /\ started' = started
                  /\ ev'.threw <=> (~ev'.fetchOk /\ ~ev'.hadEntry)
            /\ (ev'.kind = "returned" /\ ~ev'.fetched)
               => (after = before /\ ~ev'.threw)
            /\ ev'.kind \notin { "fetchStarted", "returned" }
               => after = before ]_vars

C20_Witness ==
    /\ ev.kind = "returned"
    /\ ev.fetched
    /\ ~ev.fetchOk
    /\ ev.threw
    /\ started = 1
    /\ calls = EmptyBag

(***************************************************************************)
(* What the claims about the node speak about.                             *)
(***************************************************************************)
\* the item in work came through lines 59-359 without an error
PreparedOk(item) == item.active /\ item.copilotModel # ""

\* the characters of base64
Base64Chars ==
    { UpperCase[k] : k \in 1 .. Len(UpperCase) }
    \cup { LowerCase[k] : k \in 1 .. Len(LowerCase) }
    \cup { "0", "1", "2", "3", "4", "5", "6", "7", "8", "9", "+", "/", "=" }

Base64Marker == << ";", "b", "a", "s", "e", "6", "4", "," >>

MinPayload == 50

\* s contains data:image/<subtype>;base64,<at least MinPayload characters of base64>
HasBase64ImageUrl(s) ==
    \E a \in 1 .. Len(s) :
        /\ MatchAt(s, DataImage, a)
        /\ \E b \in a + Len(DataImage) + 1 .. Len(s) :
              /\ MatchAt(s, Base64Marker, b)
              /\ \A k \in a + Len(DataImage) .. b - 1 : s[k] # ";"
              /\ b + Len(Base64Marker) + MinPayload - 1 <= Len(s)
              /\ \A k \in 0 .. MinPayload - 1 :
                     s[b + Len(Base64Marker) + k] \in Base64Chars

\* every message has a plain-string content and no message-level type
PlainStrings(messages) ==
    \A k \in 1 .. Len(messages) :
        messages[k].type = "" /\ messages[k].content.kind = "string"

(***************************************************************************)
(* C11: an item whose messages have plain-string contents and no           *)
(* message-level type is classified as vision content if and only if one   *)
(* of the strings contains a base64 image data URL with at least 50        *)
(* characters of encoded data; otherwise no vision check takes place (the  *)
(* credentials are not awaited and the cache is not read).                 *)
(***************************************************************************)
C11_StringVisionIffBase64Url ==
    ( PreparedOk(cur) /\ PlainStrings(Messages(cur)) )
        => LET url == \E k \in 1 .. Len(Messages(cur)) :
                          HasBase64ImageUrl(Messages(cur)[k].content.chars)
           IN  /\ cur.hasVisionContent <=> url
               /\ ~url => ( pc # "creds" /\ ~cur.cacheRead )

\* the message as supplied is typed file or image, or its content array holds an image
SuppliedAsVision(msg) ==
    \/ msg.type = "file" \/ msg.type = "image"
    \/ /\ msg.content.kind = "array"
       /\ \E p \in 1 .. Len(msg.content.parts) :
             \/ msg.content.parts[p].type = "image_url"
             \/ msg.content.parts[p].type = "image"
             \/ msg.content.parts[p].image_url

(***************************************************************************)
(* C12: in manual and in JSON mode, an item with a message supplied with   *)
(* the message-level type file or image, or with a content array holding   *)
(* an image part, is classified as requiring vision, whatever the text of  *)
(* the content.                                                            *)
(***************************************************************************)
C12_TypedOrImagePartIsVision ==
    ( /\ PreparedOk(cur)
      /\ \E k \in 1 .. Len(cur.input.supplied) :
             SuppliedAsVision(cur.input.supplied[k]) )
        => cur.hasVisionContent

(***************************************************************************)
(* C13 (as stated): when no message of the item requires vision, the model *)
(* id of the request body is exactly the model the caller requested, and   *)
(* neither the credential nor the capability cache is consulted.           *)
(***************************************************************************)
C13_RequestedModelSentUnchanged ==
    ( pc = "api" /\ ~cur.hasVisionContent )
        => /\ cur.request.model = cur.model
           /\ ~cur.credentialsRead
           /\ ~cur.cacheRead

(***************************************************************************)
(* C13 (amended): when no message of the item requires vision, the model   *)
(* id of the request body is the requested model passed through the        *)
(* node's mapping of OpenAI names (a name the mapping does not hold is     *)
(* sent unchanged), and execute consults neither the credential nor the    *)
(* capability cache nor the static table to resolve it.                    *)
(***************************************************************************)
C13_MappedModelSentUnchecked ==
    ( pc = "api" /\ ~cur.hasVisionContent )
        => /\ cur.request.sent
           /\ cur.request.model =
                  ( IF cur.model \in DOMAIN modelMapping
                    THEN modelMapping[cur.model] ELSE cur.model )
           /\ ~cur.credentialsRead
           /\ ~cur.cacheRead
           /\ ~cur.staticRead
           /\ ~cur.request.vision

C13_Witness ==
    /\ pc = "api"
    /\ ~cur.hasVisionContent
    /\ cur.model = "gpt-4"
    /\ cur.request.model = "gpt-4o"

(***************************************************************************)
(* C14: when vision is required, the answer of the capability cache for    *)
(* the model decides whenever it is true or false (true: the model is      *)
(* kept; false: the fallback policy applies), whatever the static table    *)
(* says; the static table is read, and decides, only when the cache        *)
(* answers unknown.                                                        *)
(***************************************************************************)
C14_CacheAnswerDecides ==
    [][ ( pc = "creds" /\ cur'.cacheRead )
          => LET answer == modelSupportsVision(cache, cur'.oauthToken, cur.copilotModel)
                 kept == /\ cur'.error = NoError
                         /\ ~cur'.fallbackUsed
                         /\ cur'.request.sent
                         /\ cur'.request.model = cur.copilotModel
                 policyApplies ==
                     \/ cur'.fallbackUsed
                     \/ cur'.error.type \in { "NoFallbackModel", "VisionUnsupported" }
             IN  /\ cur'.cacheAnswer = answer
                 /\ cur'.staticRead <=> answer = "null"
                 /\ answer = "true" => kept
                 /\ answer = "false" => policyApplies
                 /\ answer = "null" =>
                        IF cur.copilotModel \in DOMAIN StaticTable
                           /\ StaticTable[cur.copilotModel]
                        THEN kept ELSE policyApplies ]_vars

C14_Witness ==
    /\ cur.cacheRead
    /\ cur.cacheAnswer = "false"
    /\ cur.copilotModel = "gpt-4o"
    /\ StaticTable["gpt-4o"]
    /\ cur.error.type = "VisionUnsupported"

(***************************************************************************)
(* C15: when vision is required, the model does not support vision and     *)
(* vision fallback is enabled, the request is sent with the configured     *)
(* fallback model id (the custom id when the marker __manual__ is          *)
(* selected); if that id is missing, empty or only whitespace, the item    *)
(* fails and no request is sent for it.                                    *)
(***************************************************************************)
C15_FallbackModelSentOrItemFails ==
    [][ ( /\ pc = "creds"
          /\ cur'.cacheRead
          /\ \/ cur'.cacheAnswer = "false"
             \/ cur'.cacheAnswer = "null" /\ ~StaticVision(cur.copilotModel)
          /\ cur.input.enableVisionFallback )
          => LET configured == IF cur.input.visionFallbackModel = "__manual__"
                               THEN cur.input.visionFallbackCustomModel
                               ELSE cur.input.visionFallbackModel
             IN  IF configured \in { "", " ", "  " }
                 THEN /\ cur'.error.type = "NoFallbackModel"
                      /\ ~cur'.request.sent
                      /\ inFlight' = inFlight
                      /\ pc' \in { "done", "thrown" }
                 ELSE /\ cur'.error = NoError
                      /\ cur'.request.sent
                      /\ cur'.request.model = configured
                      /\ cur'.request.vision
                      /\ inFlight' = inFlight + 1
                      /\ pc' = "api" ]_vars

C15_Witness ==
    /\ pc = "api"
    /\ cur.cacheRead
    /\ cur.cacheAnswer = "false"
    /\ cur.input.enableVisionFallback
    /\ cur.input.visionFallbackModel = "__manual__"
    /\ cur.request.model = cur.input.visionFallbackCustomModel
    /\ cur.request.model # cur.model

(***************************************************************************)
(* C16 (as stated): when vision is required, the model does not support    *)
(* vision and vision fallback is disabled, the item fails with a           *)
(* vision-unsupported error whose message names the model id the caller    *)
(* requested, and no chat request is sent for it.                          *)
(***************************************************************************)
C16_UnsupportedNamesRequestedModel ==
    [][ ( /\ pc = "creds"
          /\ cur'.cacheRead
          /\ \/ cur'.cacheAnswer = "false"
             \/ cur'.cacheAnswer = "null" /\ ~StaticVision(cur.copilotModel)
          /\ ~cur.input.enableVisionFallback )
          => /\ cur'.error.type = "VisionUnsupported"
             /\ cur'.error.names = cur.model
             /\ ~cur'.request.sent
             /\ inFlight' = inFlight
             /\ pc' \in { "done", "thrown" } ]_vars

(***************************************************************************)
(* C16 (amended): when vision is required, the model does not support      *)
(* vision and vision fallback is disabled, the item fails with a           *)
(* vision-unsupported error whose message names the Copilot model id the   *)
(* requested model maps to (the requested id itself when the mapping does  *)
(* not hold it), and no chat request is sent for it.                       *)
(***************************************************************************)
C16_UnsupportedNamesMappedModel ==
    [][ ( /\ pc = "creds"
          /\ cur'.cacheRead
          /\ \/ cur'.cacheAnswer = "false"
             \/ cur'.cacheAnswer = "null" /\ ~StaticVision(cur.copilotModel)
          /\ ~cur.input.enableVisionFallback )
          => /\ cur'.error.type = "VisionUnsupported"
             /\ cur'.error.names =
                    ( IF cur.model \in DOMAIN modelMapping
                      THEN modelMapping[cur.model] ELSE cur.model )
             /\ ~cur'.request.sent
             /\ inFlight' = inFlight
             /\ pc' \in { "done", "thrown" } ]_vars

C16_Witness ==
    /\ cur.cacheRead
    /\ ~cur.input.enableVisionFallback
    /\ cur.error.type = "VisionUnsupported"
    /\ cur.model = "gpt-4"
    /\ cur.error.names = "gpt-4o"
    /\ ~cur.request.sent

(***************************************************************************)
(* C17: a request whose messages require vision is only sent with a model  *)
(* that the two-tier lookup (capability cache, then static table) reports  *)
(* as vision-capable; this holds for a substituted fallback model too.     *)
(* (Stated for credentials that are non-empty strings.)                    *)
(***************************************************************************)
C17_VisionRequestOnlyToVisionModel ==
    ( pc = "api" /\ cur.request.sent /\ cur.request.vision /\ ~Degenerate(cur.oauthToken) )
        => LET answer == modelSupportsVision(cache, cur.oauthToken, cur.request.model)
           IN  \/ answer = "true"
               \/ answer = "null" /\ StaticVision(cur.request.model)

(***************************************************************************)
(* C18: the items are processed strictly one after the other: at most one  *)
(* chat request is in flight at any time, it is the request of the item in *)
(* work, and an item is taken up only when every earlier item has ended    *)
(* with its entry in returnData and no request is in flight.               *)
(***************************************************************************)
C18_OneRequestAtATime ==
    /\ [](/\ inFlight <= 1
          /\ inFlight = 1 => ( pc = "api" /\ cur.request.sent ))
    /\ [][ /\ ( ~cur.active /\ cur'.active )
               => ( inFlight = 0 /\ Len(returnData) = itemIndex )
           /\ itemIndex' # itemIndex
               => ( itemIndex' = itemIndex + 1 /\ inFlight = 0 ) ]_vars

C18_Witness ==
    /\ itemIndex = 1
    /\ pc = "api"
    /\ inFlight = 1
    /\ Len(returnData) = 1
    /\ returnData[1].kind = "output"

(***************************************************************************)
(* C21: in every request body sent to the chat-completions endpoint no     *)
(* message carries a message-level type, in manual mode as well as in JSON *)
(* mode: each message is sent as { role, content }.                        *)
(***************************************************************************)
C21_NoMessageLevelType ==
    ( pc = "api" /\ cur.request.sent )
        => \A k \in 1 .. Len(cur.request.messages) : cur.request.messages[k].type = ""

(***************************************************************************)
(* C22: in every request sent, no message's content is a plain object: a   *)
(* content supplied as a non-null, non-array object is replaced by its     *)
(* JSON text before the request is built, while string contents and array  *)
(* contents are passed through unchanged.                                  *)
(***************************************************************************)
C22_ObjectContentStringified ==
    ( pc = "api" /\ cur.request.sent /\ Len(cur.input.supplied) > 0 )
        => /\ Len(cur.request.messages) = Len(cur.input.supplied)
           /\ \A k \in 1 .. Len(cur.input.supplied) :
                  LET supplied == cur.input.supplied[k].content
                      sent == cur.request.messages[k].content
                  IN  /\ sent.kind # "object"
                      /\ supplied.kind = "object"
                             => ( /\ sent.kind = "string"
                                  /\ sent.chars = JSONstringify(supplied.fields)
                                  /\ Head(sent.chars) = "{"
                                  /\ sent.chars[Len(sent.chars)] = "}" )
                      /\ supplied.kind \in { "string", "array" } => sent = supplied

C22_Witness ==
    /\ pc = "api"
    /\ cur.request.sent
    /\ Len(cur.input.supplied) = 2
    /\ cur.input.supplied[2].content.kind = "object"
    /\ cur.request.messages[2].content.kind = "string"

(***************************************************************************)
(* C23: with continueOnFail enabled and no error classified as a 400,      *)
(* execute returns exactly one entry per input item, in input order, each  *)
(* paired with its item index: the output of an item whose request         *)
(* succeeded, an error object for an item that failed; the failure of an   *)
(* item does not keep the later items from being processed.                *)
(***************************************************************************)
C23_OneEntryPerItem ==
    [][ /\ ( continueOnFail /\ pc' \in { "loop", "returned" } )
             => /\ Len(returnData') = itemIndex'
                /\ \A k \in 1 .. Len(returnData') : returnData'[k].pairedItem = k - 1
        /\ ( /\ continueOnFail
             /\ pc \in { "loop", "creds", "api" }
             /\ pc' \in { "done", "thrown" }
             /\ ( cur'.error # NoError => ~Handling[ErrorSource(cur'.error)].is400 ) )
             => /\ pc' = "done"
                /\ Len(returnData') = Len(returnData) + 1
                /\ SubSeq(returnData', 1, Len(returnData)) = returnData
                /\ LET entry == returnData'[Len(returnData')]
                   IN  /\ entry.pairedItem = itemIndex
                       /\ IF pc = "api" /\ cur'.error = NoError
                          THEN entry.kind = "output"
                          ELSE /\ entry.kind = "error"
                               /\ cur'.error # NoError
                               /\ DOMAIN entry.error =
                                      { "message", "type", "param", "code" } ]_vars

C23_Witness ==
    /\ continueOnFail
    /\ pc = "returned"
    /\ Len(returnData) = 2
    /\ returnData[1].kind = "error"
    /\ returnData[2].kind = "output"


\* the error sources the claim calls a 400: the cleaned message, in lower case,
\* holds "400" or "bad request", or the API error code is invalid_request_body
C24_BadRequests ==
    { source \in DOMAIN Handling :
        \E low \in { toLowerCaseAll(Handling[source].clean) } :
            \/ includes(low, << "4", "0", "0" >>)
            \/ includes(low, << "b", "a", "d", " ", "r", "e", "q", "u", "e", "s", "t" >>)
            \/ source.api.present /\ source.api.code = "invalid_request_body" }

(***************************************************************************)
(* C24: an item error that is a 400 (its cleaned message holds "400" or    *)
(* "bad request", or its API error code is invalid_request_body) ends the  *)
(* whole execute call with a 'Bad Request (400)' error even with           *)
(* continueOnFail: nothing is returned, the entries gathered for earlier   *)
(* items are not handed out and no later item is processed; without        *)
(* continueOnFail every item error ends the call in that way, the error    *)
(* itself leaving execute.                                                 *)
(***************************************************************************)
C24_BadRequestAborts ==
    [][ /\ ( /\ pc \in { "loop", "creds", "api" }
             /\ pc' \in { "done", "thrown" }
             /\ cur'.error # NoError
             /\ ( continueOnFail => ErrorSource(cur'.error) \in C24_BadRequests ) )
             => /\ pc' = "thrown"
                /\ returnData' = returnData
                /\ itemIndex' = itemIndex
                /\ IF continueOnFail
                   THEN /\ cur'.raised.kind = "BadRequest"
                        /\ startsWith(cur'.raised.message, Texts.badRequest)
                   ELSE cur'.raised = Rethrown(cur'.error)
        /\ pc = "thrown" => /\ pc' = "thrown"
                            /\ UNCHANGED << itemIndex, returnData, inFlight >>
        /\ pc' = "returned" => cur.raised = NotRaised ]_vars

C24_Witness ==
    /\ continueOnFail
    /\ pc = "thrown"
    /\ itemIndex = 1
    /\ Len(returnData) = 1
    /\ returnData[1].kind = "output"
    /\ cur.raised.kind = "BadRequest"
    /\ cur.error.api.code = "invalid_request_body"


\* the '[Token used: ...]' and '[Attempt: x/y]' segments of a message
C25_Segments(message) ==
    { SubSeq(message, k, TokenUsedEnd(message, k)) :
        k \in { j \in 1 .. Len(message) : TokenUsedEnd(message, j) > 0 } }
    \cup
    { SubSeq(message, k, AttemptEnd(message, k)) :
        k \in { j \in 1 .. Len(message) : AttemptEnd(message, j) > 0 } }

(***************************************************************************)
(* C25: with continueOnFail, whatever the error of a failing item is, the  *)
(* message of the error item pushed for it, and the message of the         *)
(* 'Bad Request (400)' error thrown for it, holds none of the              *)
(* '[Token used: ...]' and '[Attempt: x/y]' segments of the error's        *)
(* original message.                                                       *)
(***************************************************************************)
C25_NoTagInErrorMessage ==
    [][ ( /\ continueOnFail
          /\ pc \in { "loop", "creds", "api" }
          /\ pc' \in { "done", "thrown" }
          /\ cur'.error # NoError )
          => \A emitted \in { IF pc' = "done"
                              THEN returnData'[Len(returnData')].error.message
                              ELSE cur'.raised.message } :
                \A segment \in C25_Segments(cur'.error.message) :
                    ~includes(emitted, segment) ]_vars

C25_Witness ==
    /\ continueOnFail
    /\ pc = "thrown"
    /\ Cardinality(C25_Segments(cur.error.message)) = 2
    /\ cur.raised.message = Texts.badRequest \o << "4", "0", "0" >>


\* the model name the caller asked for: the custom name in custom mode or with the
\* list's manual entry, the list's selection otherwise
C26_Requested(input) ==
    IF input.modelSource = "custom" \/ input.model = "__manual__"
    THEN input.customModel
    ELSE input.model

(***************************************************************************)
(* C26: the model field of every success output is the model name the      *)
(* caller requested for the item, also when the request went out with      *)
(* another model id, by the name mapping or by the vision fallback.        *)
(***************************************************************************)
C26_OutputNamesRequestedModel ==
    [][ ( pc = "api" /\ pc' = "done" /\ cur'.error = NoError )
          => /\ Len(returnData') = Len(returnData) + 1
             /\ returnData'[Len(returnData')].kind = "output"
             /\ returnData'[Len(returnData')].model = C26_Requested(cur.input) ]_vars

C26_Witness ==
    /\ pc = "done"
    /\ cur.error = NoError
    /\ returnData[Len(returnData)].kind = "output"
    /\ returnData[Len(returnData)].model = "gpt-4"
    /\ cur.request.model \notin { "gpt-4", "gpt-4o" }
    /\ cur.input.enableVisionFallback


(***************************************************************************)
(* C27: every cache entry has expiresAt = fetchedAt + the TTL of one hour  *)
(* and is stored under the key that is its tokenHash; the TTL being longer *)
(* than the minimum refresh interval, the cooldown never holds for an      *)
(* expired entry, so that every getAvailableModels call that finds an      *)
(* expired entry issues a fetch.                                           *)
(***************************************************************************)
C27_ExpiredEntryIsRefetched ==
    [][ /\ CACHE_DURATION_MS = 3600000
        /\ CACHE_DURATION_MS > MIN_REFRESH_INTERVAL_MS
        /\ \A key \in DOMAIN cache' :
              /\ cache'[key].expiresAt = cache'[key].fetchedAt + CACHE_DURATION_MS
              /\ cache'[key].tokenHash = key
        /\ \A t \in Tokens :
              ( /\ started' = started + 1
                /\ ev'.token = t
                /\ Has(cache, hashToken[t])
                /\ cache[hashToken[t]].expiresAt <= now )
              => /\ ~InCooldown(TRUE, cache[hashToken[t]], now)
                 /\ ev'.kind = "fetchStarted"
                 /\ BagCardinality(calls') = BagCardinality(calls) + 1 ]_vars

C27_Witness ==
    /\ ev.kind = "fetchStarted"
    /\ ev.hadEntry
    /\ ev.expired
    /\ Has(cache, hashToken[ev.token])
    /\ cache[hashToken[ev.token]].expiresAt <= now


(***************************************************************************)
(* C28: an invalidation is not undone by a fetch in flight: once           *)
(* clearCache(C) or clearAllCache() has returned, the lookups for C answer *)
(* unknown until a getAvailableModels(C) call started after it completes   *)
(* with success; here, in the step right after the invalidation, for a     *)
(* call of C that was awaiting its fetch when the invalidation ran.        *)
(***************************************************************************)
C28_InvalidationOutlastsFetchInFlight ==
    [][ \A c \in InFlight :
          ( /\ \/ ev.kind = "clearCache" /\ ev.token = c.token
               \/ ev.kind = "clearAllCache"
            /\ ev'.kind = "returned" /\ ev'.fetchOk
            /\ calls' = calls (-) SetToBag({ c }) )
          => \A modelId \in ModelIds : Unknown(cache', c.token, modelId) ]_vars

(***************************************************************************)
(* C29: under overlapping getAvailableModels calls the entry of a key      *)
(* never goes back in time: its fetchedAt and expiresAt do not decrease    *)
(* when a fetch completes with success, so that a fetch started earlier    *)
(* and completed later does not replace the listing of a fetch started     *)
(* after it.                                                               *)
(***************************************************************************)
C29_EntryNeverGoesBack ==
    [][ ( ev'.kind = "returned" /\ ev'.fetchOk )
          => \A key \in DOMAIN cache \cap DOMAIN cache' :
                /\ cache'[key].fetchedAt >= cache[key].fetchedAt
                /\ cache'[key].expiresAt >= cache[key].expiresAt ]_vars

(***************************************************************************)
(* C30: clearCache(C) removes the entry under the key of C and nothing     *)
(* else, every entry under another key staying as it was; and nothing but  *)
(* clearCache, clearAllCache and a fetch of getAvailableModels that        *)
(* succeeded ever adds, removes or changes an entry.                       *)
(***************************************************************************)
C30_OnlyOwnEntryRemoved ==
    [][ /\ ev'.kind = "clearCache"
           => /\ DOMAIN cache' = DOMAIN cache \ { hashToken[ev'.token] }
              /\ \A key \in DOMAIN cache' : cache'[key] = cache[key]
        /\ cache' # cache
           => \/ ev'.kind \in { "clearCache", "clearAllCache" }
              \/ ev'.kind = "returned" /\ ev'.fetched /\ ev'.fetchOk ]_vars

C30_Witness ==
    /\ ev.kind = "clearCache"
    /\ Cardinality(DOMAIN cache) = 1
    /\ hashToken[ev.token] \notin DOMAIN cache
    /\ \E key \in DOMAIN cache : cache[key].fetchedWith # ev.token
    /\ BagCardinality(calls) = 0
    /\ started = 2

====
